---- MODULE Spec2Model ----
(***************************************************************************)
(* Knitting pattern designer: the image quantization pipeline and the      *)
(* edit session of the three designer components.                          *)
(*                                                                         *)
(*   "simple"   src/app/components/PictureDesigner.tsx, lines 1-486        *)
(*   "advanced" src/app/components/PictureDesigner.tsx, lines 487-1513     *)
(*   "sock"     src/app/components/SockDesigner.tsx                        *)
(*                                                                         *)
(* A bitmap (ImageData, or the backing store of the canvas) is a record    *)
(* [w, h, px] with px the row-major sequence of its w*h pixels, each a     *)
(* record [r, g, b, a] of 8-bit channels.  null (no ImageData, no mounted  *)
(* canvas) is the bitmap of width 0.  A palette entry is the string the    *)
(* code builds, kept as its sequence of characters, so that the hex        *)
(* formatting and the parseInt(slice) parsing are both computed.           *)
(*                                                                         *)
(* One action is one event handler together with the React render and the  *)
(* effects that render triggers (React runs them before the next event).   *)
(***************************************************************************)
EXTENDS Integers, Sequences, FiniteSets, TLC

\* ------------------------------------------------------------------------
\* Bounds of the model (not program constants)
\* ------------------------------------------------------------------------
\* number of user events explored in one session
MaxEvents == 5
\* image decodes in flight at the same time
MaxPending == 2

\* ------------------------------------------------------------------------
\* Arithmetic helpers mirroring the JavaScript number operations used
\* ------------------------------------------------------------------------
Min(a, b) == IF a < b THEN a ELSE b
Max(a, b) == IF a > b THEN a ELSE b
Abs(a) == IF a < 0 THEN -a ELSE a

\* Math.round(num / den), den > 0: nearest integer, halves towards +Infinity
MathRound(num, den) == (2 * num + den) \div (2 * den)

\* Storing the number num/den (den > 0) into a Uint8ClampedArray element:
\* clamped to 0..255, rounded to nearest with halves to even
ToUint8Clamped(num, den) ==
  IF num <= 0 THEN 0
  ELSE IF num >= 255 * den THEN 255
  ELSE LET q == num \div den
           r == num % den
       IN IF 2 * r < den THEN q
          ELSE IF 2 * r > den THEN q + 1
          ELSE IF q % 2 = 0 THEN q ELSE q + 1

RECURSIVE SumSeq(_)
SumSeq(s) == IF s = <<>> THEN 0 ELSE Head(s) + SumSeq(Tail(s))

\* ------------------------------------------------------------------------
\* Bitmaps
\* ------------------------------------------------------------------------
\* a JavaScript array built by map / Array.from: the sequence f with every
\* element computed
Arr(f) == f \o <<>>

\* const v = e; Body(v): e is computed once and its value named
With(e, Body(_)) == CHOOSE r \in { Body(v) : v \in {e} } : TRUE

Px(r, g, b, a) == [r |-> r, g |-> g, b |-> b, a |-> a]

\* a freshly constructed ImageData is transparent black
ZeroPx == Px(0, 0, 0, 0)

NullBitmap == [w |-> 0, h |-> 0, px |-> <<>>]
IsNull(bm) == bm.w = 0

\* pixel (x, y), 0-based, of a bitmap; index (y * width + x) + 1 in px
PxIndex(bm, x, y) == y * bm.w + x + 1
InBounds(bm, x, y) == x >= 0 /\ x < bm.w /\ y >= 0 /\ y < bm.h

SameRGB(p, q) == p.r = q.r /\ p.g = q.g /\ p.b = q.b

\* ------------------------------------------------------------------------
\* Hex colour strings: '#' + toString(16).padStart(2, '0') per channel,
\* read back with parseInt(s.slice(i, j), 16)
\* ------------------------------------------------------------------------
HexDigits == <<"0", "1", "2", "3", "4", "5", "6", "7",
               "8", "9", "a", "b", "c", "d", "e", "f">>

\* Number.prototype.toString(16) of a non-negative integer
RECURSIVE toString16(_)
toString16(n) ==
  IF n < 16 THEN <<HexDigits[n + 1]>>
  ELSE toString16(n \div 16) \o <<HexDigits[(n % 16) + 1]>>

\* String.prototype.padStart(2, '0')
padStart2(s) == IF Len(s) >= 2 THEN s ELSE IF Len(s) = 1 THEN <<"0">> \o s ELSE <<"0", "0">>

\* `#${r.toString(16).padStart(2,'0')}${g...}${b...}`
toHex(r, g, b) ==
  <<"#">> \o padStart2(toString16(r)) \o padStart2(toString16(g)) \o padStart2(toString16(b))

\* String.prototype.slice(from, to) with 0-based from/to inside or past the string
slice(s, from, to) ==
  LET hi == Min(to, Len(s)) IN
  IF from >= hi THEN <<>> ELSE SubSeq(s, from + 1, hi)

HexValue(c) ==
  IF \E i \in 1..16 : HexDigits[i] = c
  THEN (CHOOSE i \in 1..16 : HexDigits[i] = c) - 1
  ELSE -1

\* parseInt(s, 16): the value of the longest prefix of hex digits; NaN, written
\* -1 here, when the string starts with none
RECURSIVE parseIntAcc(_, _, _)
parseIntAcc(s, acc, seen) ==
  IF s = <<>> \/ HexValue(Head(s)) < 0
  THEN (IF seen THEN acc ELSE -1)
  ELSE parseIntAcc(Tail(s), acc * 16 + HexValue(Head(s)), TRUE)

parseInt16(s) == parseIntAcc(s, 0, FALSE)

\* storing a parseInt result in a Uint8ClampedArray: NaN becomes 0
StoreParsed(v) == IF v < 0 THEN 0 ELSE IF v > 255 THEN 255 ELSE v

\* { r: parseInt(hex.slice(1,3),16), g: parseInt(hex.slice(3,5),16),
\*   b: parseInt(hex.slice(5,7),16), a: 255 }
hexToColor(hex) ==
  Px(parseInt16(slice(hex, 1, 3)), parseInt16(slice(hex, 3, 5)),
     parseInt16(slice(hex, 5, 7)), 255)

\* ------------------------------------------------------------------------
\* Colour Space Converter (advanced variant)
\*
\* Channels are carried in thousandths (a centroid is a fractional mean):
\* 255000 is channel value 255.  The conversion follows rgbToLab step by
\* step in fixed point; L, a, b come out in hundredths.
\* ------------------------------------------------------------------------
Milli == 10 * 100

\* c/255 > 0.04045 ? Math.pow((c/255 + 0.055) / 1.055, 2.4) : c/255/12.92,
\* times 10^5, at the 256 integer channel values c = 0..255
GammaDecoded ==
  << 0, 30, 61, 91, 121, 152, 182, 212, 243, 273, 304, 335, 368, 402, 439, 478,
     518, 561, 605, 651, 700, 750, 802, 857, 913, 972, 1033, 1096, 1161, 1229, 1298, 1370,
     1444, 1521, 1600, 1681, 1764, 1850, 1938, 2029, 2122, 2217, 2315, 2416, 2519, 2624, 2732, 2843,
     2956, 3071, 3190, 3310, 3434, 3560, 3689, 3820, 3955, 4092, 4231, 4374, 4519, 4667, 4817, 4971,
     5127, 5286, 5448, 5613, 5781, 5951, 6125, 6301, 6480, 6663, 6848, 7036, 7227, 7421, 7619, 7819,
     8022, 8228, 8438, 8650, 8866, 9084, 9306, 9531, 9759, 9990, 10224, 10462, 10702, 10946, 11193, 11444,
     11697, 11954, 12214, 12477, 12744, 13014, 13287, 13563, 13843, 14126, 14413, 14703, 14996, 15293, 15593, 15896,
     16203, 16513, 16827, 17144, 17465, 17789, 18116, 18447, 18782, 19120, 19462, 19807, 20156, 20508, 20864, 21223,
     21586, 21953, 22323, 22697, 23074, 23455, 23840, 24228, 24620, 25016, 25415, 25818, 26225, 26636, 27050, 27468,
     27889, 28315, 28744, 29177, 29614, 30054, 30499, 30947, 31399, 31855, 32314, 32778, 33245, 33716, 34191, 34670,
     35153, 35640, 36131, 36625, 37124, 37626, 38133, 38643, 39157, 39676, 40198, 40724, 41254, 41789, 42327, 42869,
     43415, 43966, 44520, 45079, 45641, 46208, 46778, 47353, 47932, 48515, 49102, 49693, 50289, 50888, 51492, 52100,
     52712, 53328, 53948, 54572, 55201, 55834, 56471, 57112, 57758, 58408, 59062, 59720, 60383, 61050, 61721, 62396,
     63076, 63760, 64448, 65141, 65837, 66539, 67244, 67954, 68669, 69387, 70110, 70838, 71569, 72306, 73046, 73791,
     74540, 75294, 76052, 76815, 77582, 78354, 79130, 79910, 80695, 81485, 82279, 83077, 83880, 84687, 85499, 86316,
     87137, 87962, 88792, 89627, 90466, 91310, 92158, 93011, 93869, 94731, 95597, 96469, 97345, 98225, 99110, 100000 >>

\* gamma decoding of a channel given in thousandths (linear between the
\* tabulated integer values)
gammaDecode(v) ==
  LET c == v \div Milli
      f == v % Milli
  IN IF c >= 255 THEN GammaDecoded[256]
     ELSE IF c < 0 THEN 0
     ELSE GammaDecoded[c + 1] + ((GammaDecoded[c + 2] - GammaDecoded[c + 1]) * f) \div Milli

\* integer cube root: the n with n^3 <= v < (n+1)^3, 0 <= v <= 10^9
RECURSIVE CbrtSearch(_, _, _)
CbrtSearch(lo, hi, v) ==
  IF lo >= hi THEN lo
  ELSE LET mid == (lo + hi + 1) \div 2
       IN IF mid * mid * mid <= v THEN CbrtSearch(mid, hi, v)
          ELSE CbrtSearch(lo, mid - 1, v)

\* t > 0.008856 ? Math.pow(t, 1/3) : 7.787 * t + 16/116, t in 10^-5, result in 10^-3
labF(t) ==
  IF t > 885 THEN CbrtSearch(0, 1100, t * 10000)
  ELSE (7787 * t) \div 100000 + 138

rgbToLab(color) ==
  LET r == gammaDecode(color.r)
      g == gammaDecode(color.g)
      b == gammaDecode(color.b)
      x == (r * 4125 + g * 3576 + b * 1804) \div 10000
      y == (r * 2127 + g * 7152 + b * 722) \div 10000
      z == (r * 193 + g * 1192 + b * 9503) \div 10000
      fx == labF((x * 10000) \div 9505)
      fy == labF(y)
      fz == labF((z * 10000) \div 10888)
  IN [l |-> (116 * fy - 16000) \div 10,
      a |-> (500 * (fx - fy)) \div 10,
      b |-> (200 * (fy - fz)) \div 10]

\* the square of perceptualColorDistance (Math.sqrt is monotonic, and the
\* code only compares distances and squares them again for the seeding);
\* the arguments carry channels in thousandths
perceptualColorDistance(c1, c2) ==
  LET lab1 == rgbToLab(c1)
      lab2 == rgbToLab(c2)
  IN (lab1.l - lab2.l) * (lab1.l - lab2.l)
     + (lab1.a - lab2.a) * (lab1.a - lab2.a)
     + (lab1.b - lab2.b) * (lab1.b - lab2.b)

\* a pixel's colour with its channels in thousandths
toMilli(p) == [r |-> p.r * Milli, g |-> p.g * Milli, b |-> p.b * Milli]

\* the square of colorDistance of the simple and sock variants (device RGB),
\* channels in thousandths
colorDistance(c1, c2) ==
  LET dr == (c1.r - c2.r) \div 10
      dg == (c1.g - c2.g) \div 10
      db == (c1.b - c2.b) \div 10
  IN dr * dr + dg * dg + db * db

\* ------------------------------------------------------------------------
\* Edge Enhancer (advanced variant)
\* ------------------------------------------------------------------------
\* the sharpening kernel applied to one channel of an interior pixel (x, y):
\* centre weight 5, the four orthogonal neighbours -1, stored clamped
sharpenChannel(bm, x, y, ch) ==
  LET at(dx, dy) == bm.px[PxIndex(bm, x + dx, y + dy)][ch]
  IN Max(0, Min(255, 5 * at(0, 0) - at(0, -1) - at(-1, 0) - at(1, 0) - at(0, 1)))

\* 'Copy edges': every R, G, B element of the output that reads 0 is
\* replaced by the input's element; alpha elements are skipped
copyEdge(outv, inv) == IF outv = 0 THEN inv ELSE outv

enhanceEdgesFilter(imageData) ==
  LET w == imageData.w
      h == imageData.h
      interior(x, y) == x >= 1 /\ x < w - 1 /\ y >= 1 /\ y < h - 1
      conv(i) ==
        LET x == (i - 1) % w
            y == (i - 1) \div w
        IN IF interior(x, y)
           THEN Px(sharpenChannel(imageData, x, y, "r"),
                   sharpenChannel(imageData, x, y, "g"),
                   sharpenChannel(imageData, x, y, "b"),
                   imageData.px[i].a)
           ELSE ZeroPx
      outPx(i) ==
        LET o == conv(i)
            d == imageData.px[i]
        IN Px(copyEdge(o.r, d.r), copyEdge(o.g, d.g), copyEdge(o.b, d.b), o.a)
  IN [w |-> w, h |-> h, px |-> Arr([i \in 1..(w * h) |-> outPx(i)])]

\* ------------------------------------------------------------------------
\* Numbers of the downsampler's ratios.  sourceWidth / targetWidth and
\* x * xRatio are IEEE 754 doubles: correctly rounded to 53 significant
\* bits, ties to even.  A double is [m, f]: m its significant bits, most
\* significant first, and f how many of them follow the binary point.
\* ------------------------------------------------------------------------
SignificantBits == 53

\* the binary digits of an integer v >= 1, most significant first
RECURSIVE IntBits(_)
IntBits(v) == IF v < 2 THEN <<v>> ELSE IntBits(v \div 2) \o <<v % 2>>

\* the integer a sequence of binary digits stands for
RECURSIVE BitsValue(_)
BitsValue(bits) ==
  IF bits = <<>> THEN 0
  ELSE 2 * BitsValue(SubSeq(bits, 1, Len(bits) - 1)) + bits[Len(bits)]

\* 2^n
RECURSIVE Pow2(_)
Pow2(n) == IF n = 0 THEN 1 ELSE 2 * Pow2(n - 1)

\* 2^n modulo den
RECURSIVE Pow2Mod(_, _)
Pow2Mod(n, den) ==
  IF n = 0 THEN 1 % den
  ELSE LET half == Pow2Mod(n \div 2, den)
       IN (half * half * (IF n % 2 = 1 THEN 2 ELSE 1)) % den

\* what is left of r / den, 0 <= r < den, after n digits of its binary
\* expansion: r * 2^n modulo den
RemainderAfter(r, den, n) == (r * Pow2Mod(n, den)) % den

\* n digits of the binary expansion of r / den, 0 <= r < den, and the
\* remainder left after them
FractionBits(r, den, n) ==
  [bits |-> [i \in 1..n |-> (2 * RemainderAfter(r, den, i - 1)) \div den],
   rem |-> RemainderAfter(r, den, n)]

\* the zeros that precede the first 1 in the expansion of r / den,
\* 0 < r < den, and the remainder left after them
RECURSIVE LeadingZeros(_, _, _)
LeadingZeros(r, den, z) ==
  IF 2 * r >= den THEN [zeros |-> z, rem |-> r]
  ELSE LeadingZeros(2 * r, den, z + 1)

\* bits + 1
Increment(bits) ==
  IF \A n \in DOMAIN bits : bits[n] = 1
  THEN <<1>> \o [n \in DOMAIN bits |-> 0]
  ELSE LET k == CHOOSE n \in DOMAIN bits :
                  bits[n] = 0 /\ \A q \in (n + 1)..Len(bits) : bits[q] = 1
       IN [n \in DOMAIN bits |-> IF n < k THEN bits[n] ELSE IF n = k THEN 1 ELSE 0]

\* round-to-nearest, ties to even, of the digits bits (the first of them 1)
\* with f of them after the point, followed by further digits that are all
\* zero unless sticky
RoundToDouble(bits, f, sticky) ==
  IF Len(bits) <= SignificantBits THEN [m |-> bits, f |-> f]
  ELSE LET kept == SubSeq(bits, 1, SignificantBits)
           dropped == SubSeq(bits, SignificantBits + 1, Len(bits))
           rest == \E n \in 2..Len(dropped) : dropped[n] = 1
           up == dropped[1] = 1 /\ (sticky \/ rest \/ kept[SignificantBits] = 1)
           m == IF up THEN Increment(kept) ELSE kept
           shift == Len(dropped) + (IF Len(m) > SignificantBits THEN 1 ELSE 0)
       IN [m |-> SubSeq(m, 1, SignificantBits), f |-> f - shift]

\* the double num / den, num >= 1, den >= 1
DoubleQuotient(num, den) ==
  LET whole == num \div den
      r == num % den
  IN IF whole >= 1
     THEN LET lead == IntBits(whole)
              n == SignificantBits + 1 - Len(lead)
              frac == FractionBits(r, den, n)
          IN RoundToDouble(lead \o frac.bits, n, frac.rem # 0)
     ELSE LET skip == LeadingZeros(r, den, 0)
              frac == FractionBits(skip.rem, den, SignificantBits + 1)
          IN RoundToDouble(frac.bits, skip.zeros + SignificantBits + 1, frac.rem # 0)

\* the k binary digits of v < 2^k
FixedBits(v, k) == [i \in 1..k |-> (v \div Pow2(k - i)) % 2]

\* the digits of n * bits, 1 <= n < 2^12, taken twelve digits at a time
\* from the least significant end
RECURSIVE TimesBits(_, _, _)
TimesBits(n, bits, carry) ==
  IF bits = <<>> THEN (IF carry = 0 THEN <<>> ELSE IntBits(carry))
  ELSE LET k == Min(12, Len(bits))
           v == n * BitsValue(SubSeq(bits, Len(bits) - k + 1, Len(bits))) + carry
       IN TimesBits(n, SubSeq(bits, 1, Len(bits) - k), v \div Pow2(k))
            \o FixedBits(v % Pow2(k), k)

\* the double n * d, n >= 1
DoubleTimes(n, d) == RoundToDouble(TimesBits(n, d.m, 0), d.f, FALSE)

\* Math.floor of a double below 2^31
DoubleFloor(d) ==
  IF d.f <= 0 THEN BitsValue(d.m \o [n \in 1..(-d.f) |-> 0])
  ELSE IF d.f >= Len(d.m) THEN 0
  ELSE BitsValue(SubSeq(d.m, 1, Len(d.m) - d.f))

\* Math.ceil of a double below 2^31
DoubleCeil(d) ==
  IF d.f > 0 /\ \E n \in DOMAIN d.m : n > Len(d.m) - d.f /\ d.m[n] = 1
  THEN DoubleFloor(d) + 1
  ELSE DoubleFloor(d)

\* Math.floor(x * ratio) and Math.ceil(x * ratio), x >= 0
FloorTimes(x, ratio) == IF x = 0 THEN 0 ELSE DoubleFloor(DoubleTimes(x, ratio))
CeilTimes(x, ratio) == IF x = 0 THEN 0 ELSE DoubleCeil(DoubleTimes(x, ratio))

\* ------------------------------------------------------------------------
\* Downsampler (advanced variant)
\* ------------------------------------------------------------------------
\* one target cell (x, y) of areaAverageDownsample: the alpha-weighted
\* average of the source rectangle [sx1, sx2) x [sy1, sy2) clipped to the
\* source; the alpha is divided by the unclipped rectangle size
downsampleCell(sourceData, targetWidth, targetHeight, x, y) ==
  LET sourceWidth == sourceData.w
      sourceHeight == sourceData.h
      xRatio == DoubleQuotient(sourceWidth, targetWidth)
      yRatio == DoubleQuotient(sourceHeight, targetHeight)
      sx1 == FloorTimes(x, xRatio)
      sx2 == CeilTimes(x + 1, xRatio)
      sy1 == FloorTimes(y, yRatio)
      sy2 == CeilTimes(y + 1, yRatio)
      cells == { c \in (sx1..(Min(sx2, sourceWidth) - 1)) \X (sy1..(Min(sy2, sourceHeight) - 1)) :
                   sourceData.px[PxIndex(sourceData, c[1], c[2])].a > 0 }
      RECURSIVE acc(_, _)
      acc(S, ch) ==
        IF S = {} THEN 0
        ELSE LET c == CHOOSE e \in S : TRUE
                 p == sourceData.px[PxIndex(sourceData, c[1], c[2])]
             IN (IF ch = "a" THEN p.a ELSE p[ch] * p.a) + acc(S \ {c}, ch)
      count == acc(cells, "a")
  IN IF count > 0
     THEN Px(MathRound(acc(cells, "r"), count),
             MathRound(acc(cells, "g"), count),
             MathRound(acc(cells, "b"), count),
             MathRound(acc(cells, "a"), (sx2 - sx1) * (sy2 - sy1)))
     ELSE ZeroPx

areaAverageDownsample(sourceData, targetWidth, targetHeight) ==
  [w |-> targetWidth, h |-> targetHeight,
   px |-> Arr([i \in 1..(targetWidth * targetHeight) |->
             downsampleCell(sourceData, targetWidth, targetHeight,
                            (i - 1) % targetWidth, (i - 1) \div targetWidth)])]

\* ------------------------------------------------------------------------
\* Nearest-colour search shared by the extractors and the mappers:
\*   let minDist = Infinity; let closest = 0;
\*   cands.forEach((c, i) => { if (dist(c) < minDist) { minDist = dist(c); closest = i } })
\* dists[i] is the distance of candidate i, a negative entry standing for a
\* NaN distance, which no comparison accepts; the result is the 1-based
\* index of the first candidate at minimum distance, or 1 (the initial
\* value) when every comparison fails.
\* ------------------------------------------------------------------------
RECURSIVE ArgMinFrom(_, _, _, _)
ArgMinFrom(dists, i, best, bestD) ==
  IF i > Len(dists) THEN best
  ELSE IF dists[i] >= 0 /\ (bestD < 0 \/ dists[i] < bestD)
       THEN ArgMinFrom(dists, i + 1, i, dists[i])
       ELSE ArgMinFrom(dists, i + 1, best, bestD)

ArgMin(dists) == ArgMinFrom(dists, 1, 1, -1)

\* the visibility test of the extractors and of the direct mappers
isVisible(p) == p.a > 128

\* the pixels an extractor collects, in bitmap order
visiblePixels(imageData) == SelectSeq(imageData.px, isVisible)

\* pixelCounts.get(`${r},${g},${b}`): how many collected pixels have this RGB
pixelCount(pixels, p) == Cardinality({ i \in DOMAIN pixels : SameRGB(pixels[i], p) })

\* Math.round of a channel carried in thousandths
roundMilli(v) == (v + 500) \div Milli

roundCentroid(c) == Px(roundMilli(c.r), roundMilli(c.g), roundMilli(c.b), 255)

\* ------------------------------------------------------------------------
\* Palette Extractor, advanced variant (k-means++ seeding, perceptual
\* distance, frequency weights, dedup).  rnd[i] is the pixel the i-th
\* Math.random() draw lands on.
\* ------------------------------------------------------------------------
\* distance of a pixel to the nearest centroid chosen so far
seedDistance(pixel, centroids) ==
  LET dists == Arr([i \in DOMAIN centroids |-> perceptualColorDistance(toMilli(pixel), centroids[i])])
  IN dists[ArgMin(dists)]

\* the roulette loop: a draw selects a pixel at positive distance; a draw
\* of 0 (or one that ends on a pixel at distance 0) leaves idx at 0
RECURSIVE seedCentroids(_, _, _, _)
seedCentroids(pixels, k, rnd, centroids) ==
  LET i == Len(centroids) + 1 IN
  IF i > k THEN centroids
  ELSE IF i = 1 THEN seedCentroids(pixels, k, rnd, <<toMilli(pixels[rnd[1]])>>)
  ELSE LET j == rnd[i]
           idx == IF seedDistance(pixels[j], centroids) > 0 THEN j ELSE 1
       IN seedCentroids(pixels, k, rnd, Append(centroids, toMilli(pixels[idx])))

\* closest centroid (1-based) of every pixel, perceptual distance
assignPerceptual(pixels, centroids) ==
  Arr([p \in DOMAIN pixels |->
     ArgMin(Arr([i \in DOMAIN centroids |->
               perceptualColorDistance(toMilli(pixels[p]), centroids[i])]))])

\* sum over the members of a cluster of channel * weight, and of weight;
\* every pixel of the cluster is pushed with weight pixelCounts[its RGB]
RECURSIVE weightedSum(_, _, _, _)
weightedSum(pixels, members, ch, i) ==
  IF i > Len(pixels) THEN 0
  ELSE (IF i \in members
        THEN (IF ch = "w" THEN 1 ELSE pixels[i][ch]) * pixelCount(pixels, pixels[i])
        ELSE 0)
       + weightedSum(pixels, members, ch, i + 1)

\* one centroid after the weighted update, with its 'changed' verdict
updateWeighted(pixels, assign, centroids, i) ==
  LET members == { p \in DOMAIN pixels : assign[p] = i }
      totalWeight == weightedSum(pixels, members, "w", 1)
      newR == (weightedSum(pixels, members, "r", 1) * Milli) \div totalWeight
      newG == (weightedSum(pixels, members, "g", 1) * Milli) \div totalWeight
      newB == (weightedSum(pixels, members, "b", 1) * Milli) \div totalWeight
      c == centroids[i]
  IN IF members = {}
     THEN [c |-> c, changed |-> FALSE]
     ELSE [c |-> [r |-> newR, g |-> newG, b |-> newB],
           changed |-> Abs(c.r - newR) > Milli \/ Abs(c.g - newG) > Milli
                       \/ Abs(c.b - newB) > Milli]

\* the centroids of a round's updates
updatedCentroids(upd) == Arr([i \in DOMAIN upd |-> upd[i].c])

\* for (let iter = 0; iter < 30; iter++) { assign; update; if (!changed) break; }
RECURSIVE kmeansWeighted(_, _, _)
kmeansWeighted(pixels, centroids, iter) ==
  IF iter >= 30 THEN centroids
  ELSE With(assignPerceptual(pixels, centroids), LAMBDA assign :
         With(Arr([i \in DOMAIN centroids |-> updateWeighted(pixels, assign, centroids, i)]),
              LAMBDA upd :
                IF \E i \in DOMAIN upd : upd[i].changed
                THEN kmeansWeighted(pixels, updatedCentroids(upd), iter + 1)
                ELSE updatedCentroids(upd)))

\* the distinct elements of a sequence in order of first occurrence
\* (insertion order of a Map)
RECURSIVE firstOccurrences(_, _)
firstOccurrences(s, seen) ==
  IF s = <<>> THEN <<>>
  ELSE IF Head(s) \in seen THEN firstOccurrences(Tail(s), seen)
  ELSE <<Head(s)>> \o firstOccurrences(Tail(s), seen \cup {Head(s)})

occurrences(s, e) == Cardinality({ i \in DOMAIN s : s[i] = e })

\* Array.prototype.sort((a, b) => b.count - a.count) on {color, count}
\* items: stable, descending
RECURSIVE sortByCountDesc(_)
sortByCountDesc(items) ==
  IF items = <<>> THEN <<>>
  ELSE LET top == CHOOSE i \in DOMAIN items :
                    /\ \A j \in DOMAIN items : items[j].count <= items[i].count
                    /\ \A j \in 1..(i - 1) : items[j].count < items[i].count
           rest == Arr([j \in 1..(Len(items) - 1) |-> IF j < top THEN items[j] ELSE items[j + 1]])
       IN <<items[top]>> \o sortByCountDesc(rest)

takeFirst(s, k) == IF Len(s) <= k THEN s ELSE SubSeq(s, 1, k)

\* 'Remove duplicate colors and sort by usage': every pixel votes for the
\* rounded colour of its closest final centroid
usageCounts(votes, keys) ==
  Arr([i \in DOMAIN keys |-> [color |-> keys[i], count |-> occurrences(votes, keys[i])]])

dedupByUsage(pixels, centroids, k) ==
  With(assignPerceptual(pixels, centroids), LAMBDA assign :
    With(Arr([p \in DOMAIN pixels |-> roundCentroid(centroids[assign[p]])]), LAMBDA votes :
      takeFirst(sortByCountDesc(usageCounts(votes, firstOccurrences(votes, {}))), k)))

paletteToHex(items) ==
  Arr([i \in DOMAIN items |-> toHex(items[i].color.r, items[i].color.g, items[i].color.b)])

quantizeColorsAdvanced(imageData, k, rnd) ==
  LET pixels == visiblePixels(imageData) IN
  IF Len(pixels) = 0 THEN <<>>
  ELSE With(seedCentroids(pixels, k, rnd, <<>>), LAMBDA seeds :
         With(kmeansWeighted(pixels, seeds, 0), LAMBDA centroids :
           paletteToHex(dedupByUsage(pixels, centroids, k))))

\* the outcomes of the random draws of one extraction: k draws over the
\* collected pixels.  A seed is a copy of the drawn pixel, so draws of equal
\* pixels give the same run: one index stands for each distinct pixel.
RandomDraws(imageData, k) ==
  LET pixels == visiblePixels(imageData)
      firsts == { i \in DOMAIN pixels : \A j \in 1..(i - 1) : pixels[j] # pixels[i] }
  IN IF pixels = <<>> THEN { <<>> } ELSE [1..k -> firsts]

\* ------------------------------------------------------------------------
\* Pixel Mapper (advanced variant)
\* ------------------------------------------------------------------------
\* palette.map(hex => ({ r: parseInt(..), g: parseInt(..), b: parseInt(..), a: 255 }))
paletteColors(palette) == Arr([i \in DOMAIN palette |-> hexToColor(palette[i])])

\* perceptual distance of a pixel to a parsed palette colour; a channel that
\* parsed to NaN makes the distance NaN
paletteDistance(pixel, paletteColor) ==
  IF paletteColor.r < 0 \/ paletteColor.g < 0 \/ paletteColor.b < 0 THEN -1
  ELSE perceptualColorDistance(toMilli(pixel), toMilli(paletteColor))

\* closestColor as it starts, were the search never to replace it
closestPaletteIndexInitial(pixel, colors) == 1

\* index of the palette colour the loops select (closestColor starts as
\* palette[0]); the palette is not empty
closestPaletteIndex(pixel, colors) ==
  ArgMin(Arr([i \in DOMAIN colors |-> paletteDistance(pixel, colors[i])]))

\* data[i] = closestColor.r; data[i+1] = closestColor.g; data[i+2] = closestColor.b
withPaletteColor(pixel, c) ==
  Px(StoreParsed(c.r), StoreParsed(c.g), StoreParsed(c.b), pixel.a)

\* the shares with the seven sixteenths handed to the left neighbour
errorShareLeft(dx, dy) ==
  CASE dx = -1 /\ dy = 0 -> 7
    [] dx = -1 /\ dy = 1 -> 3
    [] dx = 0 /\ dy = 1 -> 5
    [] dx = 1 /\ dy = 1 -> 1
    [] OTHER -> 0

\* the share in sixteenths that distributeError(dx, dy, .) hands to the
\* neighbour at offset (dx, dy): 7 right, 3 below-left, 5 below, 1 below-right
errorShare(dx, dy) ==
  CASE dx = 1 /\ dy = 0 -> 7
    [] dx = -1 /\ dy = 1 -> 3
    [] dx = 0 /\ dy = 1 -> 5
    [] dx = 1 /\ dy = 1 -> 1
    [] OTHER -> 0

\* data[idx] = Math.max(0, Math.min(255, data[idx] + error * factor)),
\* stored in a Uint8ClampedArray
spread(target, oldColor, closestColor, weight) ==
  Px(ToUint8Clamped(16 * target.r + (oldColor.r - closestColor.r) * weight, 16),
     ToUint8Clamped(16 * target.g + (oldColor.g - closestColor.g) * weight, 16),
     ToUint8Clamped(16 * target.b + (oldColor.b - closestColor.b) * weight, 16),
     target.a)

\* the body of the row-major loop for pixel i (1-based): the pixel takes
\* the palette colour, and each of its four neighbours that lies inside the
\* bitmap and has alpha > 128 takes its share of the error (the four are
\* different pixels, so the four distributeError calls do not interfere)
ditherPixel(data, w, i, closestColor) ==
  Arr([n \in DOMAIN data |->
     IF n = i THEN withPaletteColor(data[i], closestColor)
     ELSE IF errorShare(((n - 1) % w) - ((i - 1) % w), ((n - 1) \div w) - ((i - 1) \div w)) > 0
             /\ data[n].a > 128
     THEN spread(data[n], data[i], closestColor,
                 errorShare(((n - 1) % w) - ((i - 1) % w), ((n - 1) \div w) - ((i - 1) \div w)))
     ELSE data[n]])

\* one turn of the row-major loop, at pixel i: a pixel with alpha < 128 is
\* skipped.  Reading .r of palette[0] of an empty palette throws: the
\* result then carries fault = TRUE and the data as far as it was written.
ditherStep(data, w, palette, i) ==
  IF data[i].a < 128 THEN [fault |-> FALSE, px |-> data]
  ELSE IF palette = <<>> THEN [fault |-> TRUE, px |-> data]
  ELSE [fault |-> FALSE,
        px |-> ditherPixel(data, w, i, palette[closestPaletteIndex(data[i], palette)])]

\* the row-major loop from pixel i on
RECURSIVE ditherFrom(_, _, _, _, _)
ditherFrom(data, w, h, palette, i) ==
  IF i > w * h THEN [fault |-> FALSE, px |-> data]
  ELSE With(ditherStep(data, w, palette, i), LAMBDA turn :
         IF turn.fault THEN turn ELSE ditherFrom(turn.px, w, h, palette, i + 1))

\* floydSteinbergDither(imageData, palette): [fault, px]
floydSteinbergDither(imageData, palette) ==
  ditherFrom(imageData.px, imageData.w, imageData.h, palette, 1)

\* 'Simple color quantization without dithering' of processImage
directQuantize(imageData, palette) ==
  [imageData EXCEPT !.px =
     Arr([i \in DOMAIN imageData.px |->
        IF imageData.px[i].a > 128
        THEN withPaletteColor(imageData.px[i],
                              palette[closestPaletteIndex(imageData.px[i], palette)])
        ELSE imageData.px[i]])]

\* Math.round((resolution * image.height) / image.width)
targetHeightOf(image, resolution) == MathRound(resolution * image.h, image.w)

\* the bitmap processImage hands to the extractor
downsampledOf(image, resolution, enhanceEdges) ==
  areaAverageDownsample(
    IF enhanceEdges /\ resolution < 64 THEN enhanceEdgesFilter(image) ELSE image,
    resolution, targetHeightOf(image, resolution))

\* processImage of the advanced variant on a decoded image: the palette and
\* the bitmap it puts on the canvas; fault when the ditherer throws (then
\* neither putImageData nor setPixelatedImage happens, setColors has)
processAdvanced(image, resolution, maxColors, useDithering, enhanceEdges, rnd) ==
  With(downsampledOf(image, resolution, enhanceEdges), LAMBDA downsampledData :
    With(quantizeColorsAdvanced(downsampledData, maxColors, rnd), LAMBDA palette :
      IF useDithering
      THEN With(floydSteinbergDither(downsampledData, paletteColors(palette)), LAMBDA dith :
             [palette |-> palette, fault |-> dith.fault,
              out |-> [downsampledData EXCEPT !.px = dith.px]])
      ELSE [palette |-> palette, fault |-> FALSE,
            out |-> directQuantize(downsampledData, paletteColors(palette))]))

\* ------------------------------------------------------------------------
\* Simple and sock variants: canvas scaling, extractors, mapper
\* ------------------------------------------------------------------------
\* ctx.imageSmoothingEnabled = false; ctx.drawImage(image, 0, 0, w, h) on the
\* canvas just resized (hence cleared): every canvas pixel takes the source
\* pixel under its centre
drawImageScaled(image, w, h) ==
  [w |-> w, h |-> h,
   px |-> Arr([i \in 1..(w * h) |->
             LET x == (i - 1) % w
                 y == (i - 1) \div w
                 sx == Min(image.w - 1, ((2 * x + 1) * image.w) \div (2 * w))
                 sy == Min(image.h - 1, ((2 * y + 1) * image.h) \div (2 * h))
             IN image.px[PxIndex(image, sx, sy)]])]

\* closest centroid (1-based) of every pixel, device-RGB distance
assignRGB(pixels, centroids) ==
  Arr([p \in DOMAIN pixels |->
     ArgMin(Arr([i \in DOMAIN centroids |-> colorDistance(toMilli(pixels[p]), centroids[i])]))])

RECURSIVE channelSum(_, _, _, _)
channelSum(pixels, members, ch, i) ==
  IF i > Len(pixels) THEN 0
  ELSE (IF i \in members THEN pixels[i][ch] ELSE 0) + channelSum(pixels, members, ch, i + 1)

\* one centroid after the plain mean update, with its 'changed' verdict
updateMean(pixels, assign, centroids, i) ==
  LET members == { p \in DOMAIN pixels : assign[p] = i }
      n == Cardinality(members)
      newR == (channelSum(pixels, members, "r", 1) * Milli) \div n
      newG == (channelSum(pixels, members, "g", 1) * Milli) \div n
      newB == (channelSum(pixels, members, "b", 1) * Milli) \div n
      c == centroids[i]
  IN IF members = {}
     THEN [c |-> c, changed |-> FALSE]
     ELSE [c |-> [r |-> newR, g |-> newG, b |-> newB],
           changed |-> Abs(c.r - newR) > Milli \/ Abs(c.g - newG) > Milli
                       \/ Abs(c.b - newB) > Milli]

\* for (let iter = 0; iter < cap; iter++) { assign; update; [if (!changed) break;] }
\* A round that leaves every centroid as it was is a fixed point of the
\* loop: the rounds after it repeat it, so their result is taken at once.
RECURSIVE kmeansMean(_, _, _, _, _)
kmeansMean(pixels, centroids, iter, cap, earlyStop) ==
  IF iter >= cap THEN centroids
  ELSE With(assignRGB(pixels, centroids), LAMBDA assign :
         With(Arr([i \in DOMAIN centroids |-> updateMean(pixels, assign, centroids, i)]),
              LAMBDA upd :
                IF (earlyStop /\ ~(\E i \in DOMAIN upd : upd[i].changed))
                   \/ updatedCentroids(upd) = centroids
                THEN updatedCentroids(upd)
                ELSE kmeansMean(pixels, updatedCentroids(upd), iter + 1, cap, earlyStop)))

\* centroids.map(c => `#${Math.round(c.r).toString(16).padStart(2,'0')}...`)
centroidsToHex(centroids) ==
  Arr([i \in DOMAIN centroids |->
     toHex(roundMilli(centroids[i].r), roundMilli(centroids[i].g), roundMilli(centroids[i].b))])

\* simple variant: k centroids drawn at random among the pixels, 20 rounds
quantizeColorsSimple(imageData, k, rnd) ==
  LET pixels == visiblePixels(imageData) IN
  IF Len(pixels) = 0 THEN <<>>
  ELSE centroidsToHex(
         kmeansMean(pixels, Arr([i \in 1..k |-> toMilli(pixels[rnd[i]])]), 0, 20, FALSE))

\* Math.round(v / 8) * 8
roundTo8(v) == MathRound(v, 8) * 8

roundedColor(p) == [r |-> roundTo8(p.r), g |-> roundTo8(p.g), b |-> roundTo8(p.b)]

\* the colorFrequency table of the sock variant, sorted by count
frequentColors(pixels) ==
  LET rounded == Arr([p \in DOMAIN pixels |-> roundedColor(pixels[p])])
      keys == firstOccurrences(rounded, {})
  IN sortByCountDesc(Arr([i \in DOMAIN keys |->
                        [color |-> keys[i], count |-> occurrences(rounded, keys[i])]]))

\* a pixel within 16 of a centroid on all three channels
nearCentroid(pixel, centroid) ==
  /\ Abs(pixel.r * Milli - centroid.r) < 16 * Milli
  /\ Abs(pixel.g * Milli - centroid.g) < 16 * Milli
  /\ Abs(pixel.b * Milli - centroid.b) < 16 * Milli

notNearAny(pixel, centroids) == \A i \in DOMAIN centroids : ~nearCentroid(pixel, centroids[i])

\* 'Fallback: create a variation of existing centroid'
variation(base, n) ==
  [r |-> Min(255 * Milli, Max(0, base.r + n * 20 * Milli)),
   g |-> Min(255 * Milli, Max(0, base.g + n * 20 * Milli)),
   b |-> Min(255 * Milli, Max(0, base.b + n * 20 * Milli))]

\* while (centroids.length < k) { ... }
RECURSIVE fillCentroids(_, _, _)
fillCentroids(pixels, k, centroids) ==
  IF Len(centroids) >= k THEN centroids
  ELSE LET remainingIdx == { p \in DOMAIN pixels : notNearAny(pixels[p], centroids) }
           remainingPixels == SelectSeq(pixels, LAMBDA q : notNearAny(q, centroids))
           index == Len(remainingPixels) \div (k - Len(centroids) + 1)
       IN IF Len(remainingPixels) > 0
          THEN fillCentroids(pixels, k, Append(centroids, toMilli(remainingPixels[index + 1])))
          ELSE fillCentroids(pixels, k,
                 Append(centroids, variation(centroids[(Len(centroids) % Len(centroids)) + 1],
                                             Len(centroids))))

\* sock variant: frequency seeding, 15 rounds with early stop
quantizeColorsSock(imageData, k) ==
  LET pixels == visiblePixels(imageData)
      sortedColors == takeFirst(frequentColors(pixels), k)
      seeds == Arr([i \in DOMAIN sortedColors |->
                  [r |-> sortedColors[i].color.r * Milli,
                   g |-> sortedColors[i].color.g * Milli,
                   b |-> sortedColors[i].color.b * Milli]])
  IN IF Len(pixels) = 0 THEN <<>>
     ELSE centroidsToHex(kmeansMean(pixels, fillCentroids(pixels, k, seeds), 0, 15, TRUE))

\* device-RGB distance of a pixel to a palette string parsed on the spot
hexDistance(pixel, colorHex) ==
  LET c == hexToColor(colorHex) IN
  IF c.r < 0 \/ c.g < 0 \/ c.b < 0 THEN -1
  ELSE colorDistance(toMilli(pixel), toMilli(c))

\* 'Apply color quantization' of the simple and sock processImage
quantizeToHexPalette(imageData, palette) ==
  [imageData EXCEPT !.px =
     Arr([i \in DOMAIN imageData.px |->
        IF imageData.px[i].a > 128
        THEN withPaletteColor(imageData.px[i],
               hexToColor(palette[ArgMin(Arr([j \in DOMAIN palette |->
                                            hexDistance(imageData.px[i], palette[j])]))]))
        ELSE imageData.px[i]])]

\* processImage of the simple variant: palette and canvas content
processSimple(image, resolution, maxColors, rnd) ==
  LET imageData == drawImageScaled(image, resolution, targetHeightOf(image, resolution))
      palette == quantizeColorsSimple(imageData, maxColors, rnd)
  IN [palette |-> palette, out |-> quantizeToHexPalette(imageData, palette)]

\* processImage of the sock variant: the palette is extracted only when the
\* flag is set or no colours are held; recalculated tells which
processSock(image, resolution, maxColors, shouldRecalculate, current) ==
  LET imageData == drawImageScaled(image, resolution, targetHeightOf(image, resolution))
      recalculated == shouldRecalculate \/ Len(current) = 0
      palette == IF recalculated THEN quantizeColorsSock(imageData, maxColors) ELSE current
  IN [palette |-> palette, recalculated |-> recalculated,
      out |-> quantizeToHexPalette(imageData, palette)]

\* ------------------------------------------------------------------------
\* Edit Session: the bitmap transformations of the handlers
\* ------------------------------------------------------------------------
\* the pixel the paint handlers write: the selected colour at full opacity
paintColor(selectedColor) ==
  LET c == hexToColor(selectedColor)
  IN Px(StoreParsed(c.r), StoreParsed(c.g), StoreParsed(c.b), 255)

\* paintPixel (advanced): bounds check, then the write at (y * width + x) * 4
paintPixelData(imageData, x, y, selectedColor) ==
  IF x < 0 \/ x >= imageData.w \/ y < 0 \/ y >= imageData.h THEN imageData
  ELSE [imageData EXCEPT !.px[y * imageData.w + x + 1] = paintColor(selectedColor)]

\* handleCanvasClick (simple, sock): the write at (y * width + x) * 4 with
\* no bounds check; a typed array ignores a write outside 0..length-1
canvasClickData(imageData, x, y, selectedColor) ==
  LET n == y * imageData.w + x IN
  IF n < 0 \/ n >= imageData.w * imageData.h THEN imageData
  ELSE [imageData EXCEPT !.px[n + 1] = paintColor(selectedColor)]

\* a corner sampling that takes the bottom-right pixel for the bottom-left one
backgroundColorsBottomRight(imageData) ==
  <<imageData.px[1], imageData.px[imageData.w],
    imageData.px[imageData.h * imageData.w]>>

\* the three sampled corners: top-left, top-right, bottom-left
backgroundColors(imageData) ==
  <<imageData.px[1], imageData.px[imageData.w],
    imageData.px[(imageData.h - 1) * imageData.w + 1]>>

\* Math.sqrt(dr^2 + dg^2 + db^2) < 50
withinThreshold(p, q) ==
  (p.r - q.r) * (p.r - q.r) + (p.g - q.g) * (p.g - q.g) + (p.b - q.b) * (p.b - q.b) < 50 * 50

\* removeBackground (simple, sock)
removeBackgroundData(imageData) ==
  LET bg == backgroundColors(imageData) IN
  [imageData EXCEPT !.px =
     Arr([i \in DOMAIN imageData.px |->
        IF \E j \in 1..3 : withinThreshold(imageData.px[i], bg[j])
        THEN [imageData.px[i] EXCEPT !.a = 0]
        ELSE imageData.px[i]])]

\* does a stored pixel equal the parsed colour on R, G and B (=== on numbers;
\* a NaN channel equals nothing)
matchesParsed(p, c) == p.r = c.r /\ p.g = c.g /\ p.b = c.b

\* a removal that clears the matching pixels, colour and all
removeColorClearing(imageData, selectedColor) ==
  LET c == hexToColor(selectedColor) IN
  [imageData EXCEPT !.px =
     Arr([i \in DOMAIN imageData.px |->
        IF matchesParsed(imageData.px[i], c) THEN ZeroPx ELSE imageData.px[i]])]

\* removeSelectedColor (advanced)
removeColorData(imageData, selectedColor) ==
  LET c == hexToColor(selectedColor) IN
  [imageData EXCEPT !.px =
     Arr([i \in DOMAIN imageData.px |->
        IF matchesParsed(imageData.px[i], c)
        THEN [imageData.px[i] EXCEPT !.a = 0]
        ELSE imageData.px[i]])]

\* a pixel loop that looks for the new colour where it should look for the old
replaceColorSeekingNew(imageData, oldColor, newColor) ==
  LET newRgb == hexToColor(newColor)
  IN [imageData EXCEPT !.px =
        Arr([i \in DOMAIN imageData.px |->
           IF matchesParsed(imageData.px[i], newRgb)
           THEN withPaletteColor(imageData.px[i], newRgb)
           ELSE imageData.px[i]])]

\* the pixel loop of updatePaletteColor (all variants)
replaceColorData(imageData, oldColor, newColor) ==
  LET oldRgb == hexToColor(oldColor)
      newRgb == hexToColor(newColor)
  IN [imageData EXCEPT !.px =
        Arr([i \in DOMAIN imageData.px |->
           IF matchesParsed(imageData.px[i], oldRgb)
           THEN withPaletteColor(imageData.px[i], newRgb)
           ELSE imageData.px[i]])]

\* ctx.putImageData(imageData, 0, 0): the canvas keeps its size; the pixels
\* the image covers are replaced
putImageData(cv, imageData) ==
  [cv EXCEPT !.px =
     Arr([i \in DOMAIN cv.px |->
        LET x == (i - 1) % cv.w
            y == (i - 1) \div cv.w
        IN IF x < imageData.w /\ y < imageData.h
           THEN imageData.px[PxIndex(imageData, x, y)]
           ELSE cv.px[i]])]

\* a saveToHistory that sets the cursor to the length
saveToHistoryIndexIsLength(hist, imageData) ==
  LET newHistory == Append(SubSeq(hist.history, 1, hist.index + 1), imageData)
  IN [history |-> newHistory, index |-> Len(newHistory)]

\* a saveToHistory that appends without discarding what lies beyond the cursor
saveToHistoryKeepsRedo(hist, imageData) ==
  LET newHistory == Append(hist.history, imageData)
  IN [history |-> newHistory, index |-> Len(newHistory) - 1]

\* saveToHistory: newHistory = prev.slice(0, index + 1); push; index = length - 1
saveToHistory(hist, imageData) ==
  LET newHistory == Append(SubSeq(hist.history, 1, hist.index + 1), imageData)
  IN [history |-> newHistory, index |-> Len(newHistory) - 1]

\* an effect on [pixelatedImage] that pushes every new bitmap
snapshotEveryBitmap(hist, pixelated) ==
  IF ~IsNull(pixelated) THEN saveToHistory(hist, pixelated) ELSE hist

\* the effect on [pixelatedImage]: the first bitmap becomes the initial snapshot
snapshotEffect(hist, pixelated) ==
  IF ~IsNull(pixelated) /\ hist.index = -1 THEN saveToHistory(hist, pixelated) ELSE hist

\* ------------------------------------------------------------------------
\* The session: state of one mounted designer component
\* ------------------------------------------------------------------------
VARIABLES
  variant,                  \* which component this session runs
  image,                    \* useState image: the decoded source, or null
  resolution, maxColors,    \* the two sliders
  useDithering, enhanceEdges, \* the two checkboxes (advanced)
  pixelatedImage,           \* useState pixelatedImage
  colors,                   \* useState colors: the palette
  selectedColor,            \* useState selectedColor
  isDrawing,                \* useState isDrawing
  history, historyIndexRef, \* useState history, useRef index (advanced)
  shouldRecalculateColors,  \* useRef flag (sock)
  currentColors,            \* useRef palette copy (sock)
  canvas,                   \* the mounted canvas and its pixels, or null
  pending,                  \* image decodes in flight, oldest request first;
                            \* each also notes the image of the most recent
                            \* request (null after a reset that loads none)
  crashed,                  \* an effect threw: the component is gone
  events,                   \* user events so far
  last,                     \* the handler that ran last, with the cursor and
                            \* history length it found
  trail, mark,              \* a paint gesture being followed, and the bitmap
                            \* on the canvas when it began
  processed                 \* what processImage yields for every image and
                            \* setting, tabulated at start and only read

vars == <<variant, image, resolution, maxColors, useDithering, enhanceEdges,
          pixelatedImage, colors, selectedColor, isDrawing, history,
          historyIndexRef, shouldRecalculateColors, currentColors, canvas,
          pending, crashed, events, last, trail, mark, processed>>

Variants == {"simple", "advanced", "sock"}

\* source images a user can load: 2x1 red|blue, and 2x2 white with a black
\* bottom-right pixel, all opaque
Red == Px(255, 0, 0, 255)
Blue == Px(0, 0, 255, 255)
White == Px(255, 255, 255, 255)
Black == Px(0, 0, 0, 255)

Images ==
  << [w |-> 2, h |-> 1, px |-> <<Red, Blue>>],
     [w |-> 2, h |-> 2, px |-> <<White, White, White, Black>>] >>

\* the sock component's default image (default-sock.png)
DefaultImage == Images[1]

\* slider positions explored: the grid is scaled down to the size of the
\* model's images (the components offer 16..128 / 640..1024 and 2..16 / 3..7)
Resolutions == {1, 2}
MaxColorChoices == {2, 3}

\* useState(32) / useState(1024), useState(8) / useState(7), scaled alike
defaultResolution == CHOOSE r \in Resolutions : \A q \in Resolutions : q <= r
defaultMaxColors == CHOOSE k \in MaxColorChoices : \A q \in MaxColorChoices : k <= q

\* values the colour input can deliver to updatePaletteColor
NewColors == { toHex(0, 255, 0), toHex(255, 0, 0) }

\* pointer coordinates after Math.floor and scaling: the canvas and one
\* pixel around it
Coordinates(cv) == ((-1)..cv.w) \X ((-1)..cv.h)

BlackHex == toHex(0, 0, 0)

\* the handler that ran last, with what it found: the cursor, the history
\* length and whether a source image was held
NoOp == [op |-> "none", arg |-> "", idx |-> -1, len |-> 0, loaded |-> FALSE]
Did(op, arg) ==
  [op |-> op, arg |-> arg, idx |-> historyIndexRef, len |-> Len(history),
   loaded |-> ~IsNull(image)]

\* a loader that knows three paths only
PossiblePathsThree == 1..3

\* the four paths loadDefaultImage tries, in order
PossiblePaths == 1..4

\* processImage is a function of the image, the settings and the random
\* draws: its outcomes for the images and settings explored are tabulated,
\* indexed by image number, resolution, maxColors and the two checkboxes
\* (1 = checked, 2 = unchecked)
MaxOf(S) == CHOOSE m \in S : \A q \in S : q <= m
imageNo(img) == CHOOSE i \in DOMAIN Images : Images[i] = img
boxNo(checked) == IF checked THEN 1 ELSE 2

advancedOutcomes ==
  Arr([i \in DOMAIN Images |->
    Arr([res \in 1..MaxOf(Resolutions) |->
      Arr([k \in 1..MaxOf(MaxColorChoices) |->
        Arr([d \in 1..2 |->
          Arr([e \in 1..2 |->
            { processAdvanced(Images[i], res, k, d = 1, e = 1, rnd) :
                rnd \in RandomDraws(downsampledOf(Images[i], res, e = 1), k) }])])])])])

simpleOutcomes ==
  Arr([i \in DOMAIN Images |->
    Arr([res \in 1..MaxOf(Resolutions) |->
      Arr([k \in 1..MaxOf(MaxColorChoices) |->
        { processSimple(Images[i], res, k, rnd) :
            rnd \in RandomDraws(drawImageScaled(Images[i], res,
                                                targetHeightOf(Images[i], res)), k) }])])])

\* the sock variant extracts the palette when the flag is set or no colours
\* are held; the table holds these outcomes
sockOutcomes ==
  Arr([i \in DOMAIN Images |->
    Arr([res \in 1..MaxOf(Resolutions) |->
      Arr([k \in 1..MaxOf(MaxColorChoices) |->
        processSock(Images[i], res, k, TRUE, <<>>)])])])

Init ==
  /\ variant \in Variants
  /\ image = NullBitmap
  /\ resolution = defaultResolution
  /\ maxColors = defaultMaxColors
  /\ useDithering = TRUE
  /\ enhanceEdges = TRUE
  /\ pixelatedImage = NullBitmap
  /\ colors = <<>>
  /\ selectedColor = BlackHex
  /\ isDrawing = FALSE
  /\ history = <<>>
  /\ historyIndexRef = -1
  /\ shouldRecalculateColors = TRUE
  /\ currentColors = <<>>
  /\ canvas = NullBitmap
  /\ pending = IF variant = "sock"
               THEN <<[img |-> DefaultImage, path |-> 1, wanted |-> DefaultImage]>>
               ELSE <<>>
  /\ crashed = FALSE
  /\ events = 0
  /\ last = NoOp
  /\ trail = "none"
  /\ mark = NullBitmap
  /\ processed = CASE variant = "advanced" -> advancedOutcomes
                    [] variant = "simple" -> simpleOutcomes
                    [] variant = "sock" -> sockOutcomes

\* a user event can be taken
CanAct == ~crashed /\ events < MaxEvents

\* the ghost variables of a step that is no part of a followed gesture
Forget == trail' = "none" /\ mark' = NullBitmap

hist == [history |-> history, index |-> historyIndexRef]

\* canvas.width = w; canvas.height = h: the canvas is cleared
blankCanvas(w, h) == [w |-> w, h |-> h, px |-> Arr([i \in 1..(w * h) |-> ZeroPx])]

\* The render after image, resolution, maxColors or a toggle changed: the
\* processImage effect of the variant, then the effects of the render its
\* state updates cause.  img, res, k, dith, enh, flag are the values the
\* render sees.
Reprocess(img, res, k, dith, enh, flag) ==
  IF IsNull(img)
  THEN /\ UNCHANGED <<pixelatedImage, colors, history, historyIndexRef,
                      currentColors, canvas, crashed>>
       /\ shouldRecalculateColors' = flag
  ELSE CASE variant = "advanced" ->
              \E p \in processed[imageNo(img)][res][k][boxNo(dith)][boxNo(enh)] :
                LET h == snapshotEffect(hist, p.out)
                IN /\ colors' = p.palette
                   /\ crashed' = p.fault
                   /\ canvas' = IF p.fault THEN blankCanvas(p.out.w, p.out.h) ELSE p.out
                   /\ pixelatedImage' = IF p.fault THEN pixelatedImage ELSE p.out
                   /\ history' = IF p.fault THEN history ELSE h.history
                   /\ historyIndexRef' = IF p.fault THEN historyIndexRef ELSE h.index
                   /\ UNCHANGED currentColors
                   /\ shouldRecalculateColors' = flag
         [] variant = "simple" ->
              \E p \in processed[imageNo(img)][res][k] :
                /\ colors' = p.palette
                /\ canvas' = p.out
                /\ pixelatedImage' = p.out
                /\ UNCHANGED <<history, historyIndexRef, currentColors, crashed>>
                /\ shouldRecalculateColors' = flag
         [] variant = "sock" ->
              LET fresh == flag \/ Len(currentColors) = 0
                  p == IF fresh THEN processed[imageNo(img)][res][k]
                       ELSE processSock(img, res, k, flag, currentColors)
              IN /\ colors' = IF p.recalculated THEN p.palette ELSE colors
                 /\ currentColors' = IF p.recalculated THEN p.palette ELSE currentColors
                 /\ shouldRecalculateColors' = IF p.recalculated THEN FALSE ELSE flag
                 /\ canvas' = p.out
                 /\ pixelatedImage' = p.out
                 /\ UNCHANGED <<history, historyIndexRef, crashed>>

\* a reset that puts the cursor on 0, as if a snapshot were held
resetValuesCursorZero(v) ==
  [image |-> NullBitmap,
   resolution |-> defaultResolution,
   maxColors |-> defaultMaxColors,
   pixelatedImage |-> NullBitmap,
   colors |-> <<>>,
   selectedColor |-> BlackHex,
   isDrawing |-> FALSE,
   useDithering |-> TRUE,
   enhanceEdges |-> TRUE,
   history |-> <<>>,
   historyIndexRef |-> 0]

\* resetComponent of variant v: the values its setters and ref assignments
\* leave (32 and 8, in the sock variant 1024 and 7, are the slider defaults;
\* the simple and sock variants hold no checkboxes and no history, which stay
\* as constructed)
resetValues(v) ==
  [image |-> NullBitmap,
   resolution |-> defaultResolution,
   maxColors |-> defaultMaxColors,
   pixelatedImage |-> NullBitmap,
   colors |-> <<>>,
   selectedColor |-> BlackHex,
   isDrawing |-> FALSE,
   useDithering |-> TRUE,
   enhanceEdges |-> TRUE,
   history |-> <<>>,
   historyIndexRef |-> -1]

\* the sequence without its n-th element
RemoveAt(q, n) == Arr([i \in 1..(Len(q) - 1) |-> IF i < n THEN q[i] ELSE q[i + 1]])

OutOfBounds(cv, x, y) == x < 0 \/ x >= cv.w \/ y < 0 \/ y >= cv.h
Where(cv, x, y) == IF OutOfBounds(cv, x, y) THEN "out" ELSE "in"

\* the decodes in flight once a newer request for img (null: a reset that
\* loads nothing) has been made: the callbacks stay registered
Requested(q, img) == Arr([n \in DOMAIN q |-> [q[n] EXCEPT !.wanted = img]])

\* handleFileUpload / handleDrop (upload area, shown while no image is set)
\* and handlePaste (advanced, always listening): a decode starts
RequestLoad(i) ==
  /\ CanAct
  /\ Len(pending) < MaxPending
  /\ IsNull(image) \/ variant = "advanced"
  /\ pending' = Append(Requested(pending, Images[i]),
                       [img |-> Images[i], path |-> 0, wanted |-> Images[i]])
  /\ events' = events + 1
  /\ last' = Did("requestLoad", "")
  /\ Forget
  /\ UNCHANGED <<variant, processed, image, resolution, maxColors, useDithering, enhanceEdges,
                 pixelatedImage, colors, selectedColor, isDrawing, history,
                 historyIndexRef, shouldRecalculateColors, currentColors, canvas, crashed>>

\* img.onload: setImage(img) (sock: after raising the recalculation flag),
\* the canvas is mounted and the processImage effect runs
DecodeSuccess(n) ==
  /\ ~crashed
  /\ n \in DOMAIN pending
  /\ image' = pending[n].img
  /\ pending' = RemoveAt(pending, n)
  /\ Reprocess(pending[n].img, resolution, maxColors, useDithering, enhanceEdges,
               IF variant = "sock" THEN TRUE ELSE shouldRecalculateColors)
  /\ last' = Did("decoded", "")
  /\ Forget
  /\ UNCHANGED <<variant, processed, resolution, maxColors, useDithering, enhanceEdges,
                 selectedColor, isDrawing, events>>

\* the decode fails.  Only the default-image loader listens (img.onerror):
\* it moves on to the next path and gives up after the last one
DecodeFail(n) ==
  /\ ~crashed
  /\ n \in DOMAIN pending
  /\ pending' = IF pending[n].path \in PossiblePaths /\ pending[n].path + 1 \in PossiblePaths
                THEN [pending EXCEPT ![n].path = @ + 1]
                ELSE RemoveAt(pending, n)
  /\ last' = Did("decodeFailed",
                 IF pending[n].path \notin PossiblePaths THEN "unheard"
                 ELSE IF pending[n].path + 1 \in PossiblePaths THEN "next"
                 ELSE "gaveUp")
  /\ Forget
  /\ UNCHANGED <<variant, processed, image, resolution, maxColors, useDithering, enhanceEdges,
                 pixelatedImage, colors, selectedColor, isDrawing, history,
                 historyIndexRef, shouldRecalculateColors, currentColors, canvas,
                 crashed, events>>

\* the resolution slider
SetResolution(r) ==
  /\ CanAct
  /\ r # resolution
  /\ resolution' = r
  /\ Reprocess(image, r, maxColors, useDithering, enhanceEdges, shouldRecalculateColors)
  /\ events' = events + 1
  /\ last' = Did("setResolution", "")
  /\ Forget
  /\ UNCHANGED <<variant, processed, image, maxColors, useDithering, enhanceEdges, selectedColor,
                 isDrawing, pending>>

\* the max-colours slider; in the sock variant the effect on [maxColors]
\* raises the flag first when an image and colours are held
SetMaxColors(k) ==
  /\ CanAct
  /\ k # maxColors
  /\ maxColors' = k
  /\ Reprocess(image, resolution, k, useDithering, enhanceEdges,
               IF variant = "sock" /\ ~IsNull(image) /\ Len(colors) > 0
               THEN TRUE ELSE shouldRecalculateColors)
  /\ events' = events + 1
  /\ last' = Did("setMaxColors", "")
  /\ Forget
  /\ UNCHANGED <<variant, processed, image, resolution, useDithering, enhanceEdges, selectedColor,
                 isDrawing, pending>>

\* the two checkboxes of the advanced variant
ToggleDithering ==
  /\ CanAct
  /\ variant = "advanced"
  /\ useDithering' = ~useDithering
  /\ Reprocess(image, resolution, maxColors, ~useDithering, enhanceEdges,
               shouldRecalculateColors)
  /\ events' = events + 1
  /\ last' = Did("toggleDithering", "")
  /\ Forget
  /\ UNCHANGED <<variant, processed, image, resolution, maxColors, enhanceEdges, selectedColor,
                 isDrawing, pending>>

ToggleEnhanceEdges ==
  /\ CanAct
  /\ variant = "advanced"
  /\ enhanceEdges' = ~enhanceEdges
  /\ Reprocess(image, resolution, maxColors, useDithering, ~enhanceEdges,
               shouldRecalculateColors)
  /\ events' = events + 1
  /\ last' = Did("toggleEnhanceEdges", "")
  /\ Forget
  /\ UNCHANGED <<variant, processed, image, resolution, maxColors, useDithering, selectedColor,
                 isDrawing, pending>>

\* a click on a palette swatch (on another colour than the selected one)
SelectColor(i) ==
  /\ CanAct
  /\ i \in DOMAIN colors
  /\ colors[i] # selectedColor
  /\ selectedColor' = colors[i]
  /\ events' = events + 1
  /\ last' = Did("selectColor", "")
  /\ Forget
  /\ UNCHANGED <<variant, processed, image, resolution, maxColors, useDithering, enhanceEdges,
                 pixelatedImage, colors, isDrawing, history, historyIndexRef,
                 shouldRecalculateColors, currentColors, canvas, pending, crashed>>

\* paintPixel on the mounted canvas: the canvas and pixelatedImage after it
PaintPixel(x, y) ==
  IF IsNull(pixelatedImage) \/ OutOfBounds(canvas, x, y)
  THEN UNCHANGED <<canvas, pixelatedImage, history, historyIndexRef>>
  ELSE LET imageData == paintPixelData(canvas, x, y, selectedColor)
           h == snapshotEffect(hist, imageData)
       IN /\ canvas' = imageData
          /\ pixelatedImage' = imageData
          /\ history' = h.history
          /\ historyIndexRef' = h.index

\* handleCanvasMouseDown (advanced)
MouseDown(x, y) ==
  /\ CanAct
  /\ variant = "advanced"
  /\ ~IsNull(canvas)
  /\ isDrawing' = TRUE
  /\ PaintPixel(x, y)
  /\ events' = events + 1
  /\ last' = Did("mouseDown", Where(canvas, x, y))
  /\ trail' = IF historyIndexRef >= 0 THEN "drag" ELSE "none"
  /\ mark' = IF historyIndexRef >= 0 THEN canvas ELSE NullBitmap
  /\ UNCHANGED <<variant, processed, image, resolution, maxColors, useDithering, enhanceEdges,
                 colors, selectedColor, shouldRecalculateColors, currentColors,
                 pending, crashed>>

\* handleCanvasMouseMove (advanced) while drawing; it does nothing otherwise
MouseMove(x, y) ==
  /\ CanAct
  /\ variant = "advanced"
  /\ ~IsNull(canvas)
  /\ isDrawing
  /\ PaintPixel(x, y)
  /\ events' = events + 1
  /\ last' = Did("mouseMove", Where(canvas, x, y))
  /\ UNCHANGED <<variant, processed, image, resolution, maxColors, useDithering, enhanceEdges,
                 colors, selectedColor, isDrawing, shouldRecalculateColors,
                 currentColors, pending, crashed, trail, mark>>

\* handleCanvasMouseUp (advanced): one snapshot of the canvas if drawing
MouseUp ==
  /\ CanAct
  /\ variant = "advanced"
  /\ ~IsNull(canvas)
  /\ LET h == IF isDrawing THEN saveToHistory(hist, canvas) ELSE hist
     IN history' = h.history /\ historyIndexRef' = h.index
  /\ isDrawing' = FALSE
  /\ events' = events + 1
  /\ last' = Did("mouseUp", IF isDrawing THEN "drawing" ELSE "idle")
  /\ trail' = IF isDrawing /\ trail = "drag" THEN "gestured" ELSE "none"
  /\ mark' = IF isDrawing /\ trail = "drag" THEN mark ELSE NullBitmap
  /\ UNCHANGED <<variant, processed, image, resolution, maxColors, useDithering, enhanceEdges,
                 pixelatedImage, colors, selectedColor, shouldRecalculateColors,
                 currentColors, canvas, pending, crashed>>

\* handleCanvasMouseLeave (advanced) during a drag; it changes nothing otherwise
MouseLeave ==
  /\ CanAct
  /\ variant = "advanced"
  /\ ~IsNull(canvas)
  /\ isDrawing
  /\ isDrawing' = FALSE
  /\ events' = events + 1
  /\ last' = Did("mouseLeave", "")
  /\ Forget
  /\ UNCHANGED <<variant, processed, image, resolution, maxColors, useDithering, enhanceEdges,
                 pixelatedImage, colors, selectedColor, history, historyIndexRef,
                 shouldRecalculateColors, currentColors, canvas, pending, crashed>>

\* handleCanvasClick (simple, sock)
CanvasClick(x, y) ==
  /\ CanAct
  /\ variant \in {"simple", "sock"}
  /\ ~IsNull(canvas)
  /\ IF IsNull(pixelatedImage)
     THEN UNCHANGED <<canvas, pixelatedImage>>
     ELSE /\ canvas' = canvasClickData(canvas, x, y, selectedColor)
          /\ pixelatedImage' = canvas'
  /\ events' = events + 1
  /\ last' = Did("canvasClick", Where(canvas, x, y))
  /\ Forget
  /\ UNCHANGED <<variant, processed, image, resolution, maxColors, useDithering, enhanceEdges,
                 colors, selectedColor, isDrawing, history, historyIndexRef,
                 shouldRecalculateColors, currentColors, pending, crashed>>

\* the Remove Background button (simple, sock; disabled without pixelatedImage)
RemoveBackground ==
  /\ CanAct
  /\ variant \in {"simple", "sock"}
  /\ ~IsNull(pixelatedImage)
  /\ ~IsNull(canvas)
  /\ canvas' = removeBackgroundData(canvas)
  /\ pixelatedImage' = canvas'
  /\ events' = events + 1
  /\ last' = Did("removeBackground", "")
  /\ Forget
  /\ UNCHANGED <<variant, processed, image, resolution, maxColors, useDithering, enhanceEdges,
                 colors, selectedColor, isDrawing, history, historyIndexRef,
                 shouldRecalculateColors, currentColors, pending, crashed>>

\* the Remove Color button (advanced; disabled without pixelatedImage)
RemoveSelectedColor ==
  /\ CanAct
  /\ variant = "advanced"
  /\ ~IsNull(pixelatedImage)
  /\ ~IsNull(canvas)
  /\ LET imageData == removeColorData(canvas, selectedColor)
         h == saveToHistory(hist, imageData)
     IN /\ canvas' = imageData
        /\ pixelatedImage' = imageData
        /\ history' = h.history
        /\ historyIndexRef' = h.index
  /\ events' = events + 1
  /\ last' = Did("removeSelectedColor", "")
  /\ Forget
  /\ UNCHANGED <<variant, processed, image, resolution, maxColors, useDithering, enhanceEdges,
                 colors, selectedColor, isDrawing, shouldRecalculateColors,
                 currentColors, pending, crashed>>

\* the colour input of palette entry index delivers another colour
UpdatePaletteColor(index, newColor) ==
  /\ CanAct
  /\ index \in DOMAIN colors
  /\ newColor # colors[index]
  /\ LET updatedColors == [colors EXCEPT ![index] = newColor]
         oldColor == colors[index]
         imageData == replaceColorData(canvas, oldColor, newColor)
         h == saveToHistory(hist, imageData)
     IN IF IsNull(canvas) \/ IsNull(pixelatedImage)
        THEN /\ colors' = IF variant = "sock" THEN colors ELSE updatedColors
             /\ UNCHANGED <<canvas, pixelatedImage, history, historyIndexRef, currentColors>>
        ELSE /\ colors' = updatedColors
             /\ canvas' = imageData
             /\ pixelatedImage' = imageData
             /\ currentColors' = IF variant = "sock" THEN updatedColors ELSE currentColors
             /\ history' = IF variant = "advanced" THEN h.history ELSE history
             /\ historyIndexRef' = IF variant = "advanced" THEN h.index ELSE historyIndexRef
  /\ events' = events + 1
  /\ last' = Did("updatePaletteColor", "")
  /\ Forget
  /\ UNCHANGED <<variant, processed, image, resolution, maxColors, useDithering, enhanceEdges,
                 selectedColor, isDrawing, shouldRecalculateColors, pending, crashed>>

\* an undo that also takes the edited colours out of the palette
UndoClearingPalette ==
  /\ CanAct
  /\ variant = "advanced"
  /\ IF historyIndexRef > 0 /\ ~IsNull(canvas)
     THEN LET previousState == history[historyIndexRef]
          IN /\ historyIndexRef' = historyIndexRef - 1
             /\ canvas' = putImageData(canvas, previousState)
             /\ pixelatedImage' = previousState
             /\ colors' = SelectSeq(colors, LAMBDA c : c \notin NewColors)
     ELSE UNCHANGED <<historyIndexRef, canvas, pixelatedImage, colors>>
  /\ events' = events + 1
  /\ last' = Did("undo", "")
  /\ trail' = IF trail = "gestured" THEN "undone" ELSE "none"
  /\ mark' = IF trail = "gestured" THEN mark ELSE NullBitmap
  /\ UNCHANGED <<variant, processed, image, resolution, maxColors, useDithering, enhanceEdges,
                 selectedColor, isDrawing, history, shouldRecalculateColors,
                 currentColors, pending, crashed>>

\* Ctrl+Z / Cmd+Z (advanced)
Undo ==
  /\ CanAct
  /\ variant = "advanced"
  /\ IF historyIndexRef > 0 /\ ~IsNull(canvas)
     THEN LET previousState == history[historyIndexRef]
          IN /\ historyIndexRef' = historyIndexRef - 1
             /\ canvas' = putImageData(canvas, previousState)
             /\ pixelatedImage' = previousState
     ELSE UNCHANGED <<historyIndexRef, canvas, pixelatedImage>>
  /\ events' = events + 1
  /\ last' = Did("undo", "")
  /\ trail' = IF trail = "gestured" THEN "undone" ELSE "none"
  /\ mark' = IF trail = "gestured" THEN mark ELSE NullBitmap
  /\ UNCHANGED <<variant, processed, image, resolution, maxColors, useDithering, enhanceEdges,
                 colors, selectedColor, isDrawing, history, shouldRecalculateColors,
                 currentColors, pending, crashed>>

\* the Reset button: resetComponent of the variant; the canvas is cleared
\* and, with image null, unmounted; the sock variant schedules a reload of
\* the default image
Reset ==
  /\ CanAct
  /\ variant = "sock" => Len(pending) < MaxPending
  /\ image' = resetValues(variant).image
  /\ resolution' = resetValues(variant).resolution
  /\ maxColors' = resetValues(variant).maxColors
  /\ pixelatedImage' = resetValues(variant).pixelatedImage
  /\ colors' = resetValues(variant).colors
  /\ selectedColor' = resetValues(variant).selectedColor
  /\ isDrawing' = resetValues(variant).isDrawing
  /\ useDithering' = resetValues(variant).useDithering
  /\ enhanceEdges' = resetValues(variant).enhanceEdges
  /\ history' = resetValues(variant).history
  /\ historyIndexRef' = resetValues(variant).historyIndexRef
  /\ shouldRecalculateColors' = TRUE
  /\ currentColors' = <<>>
  /\ canvas' = NullBitmap
  /\ pending' = IF variant = "sock"
                THEN Append(Requested(pending, DefaultImage),
                            [img |-> DefaultImage, path |-> 0, wanted |-> DefaultImage])
                ELSE Requested(pending, NullBitmap)
  /\ events' = events + 1
  /\ last' = Did("reset", "")
  /\ Forget
  /\ UNCHANGED <<variant, processed, crashed>>

Next ==
  \/ \E i \in DOMAIN Images : RequestLoad(i)
  \/ \E n \in DOMAIN pending : DecodeSuccess(n)
  \/ \E n \in DOMAIN pending : DecodeFail(n)
  \/ \E r \in Resolutions : SetResolution(r)
  \/ \E k \in MaxColorChoices : SetMaxColors(k)
  \/ ToggleDithering
  \/ ToggleEnhanceEdges
  \/ \E i \in DOMAIN colors : SelectColor(i)
  \/ \E c \in Coordinates(canvas) : MouseDown(c[1], c[2])
  \/ \E c \in Coordinates(canvas) : MouseMove(c[1], c[2])
  \/ MouseUp
  \/ MouseLeave
  \/ \E c \in Coordinates(canvas) : CanvasClick(c[1], c[2])
  \/ RemoveBackground
  \/ RemoveSelectedColor
  \/ \E i \in DOMAIN colors : \E c \in NewColors : UpdatePaletteColor(i, c)
  \/ Undo
  \/ Reset

Spec == Init /\ [][Next]_vars

\* ------------------------------------------------------------------------
\* Properties
\* ------------------------------------------------------------------------
\* the steps of the advanced variant that call saveToHistory from a handler
PushedByHandler ==
  \/ last'.op = "removeSelectedColor"
  \/ last'.op = "updatePaletteColor" /\ variant = "advanced" /\ ~IsNull(canvas)
     /\ ~IsNull(pixelatedImage)
  \/ last'.op = "mouseUp" /\ last'.arg = "drawing"

\* the history after a push at cursor historyIndexRef: the snapshots up to
\* the cursor, then the bitmap now on the canvas, the cursor on it
PushedOne ==
  /\ Len(history') = historyIndexRef + 2
  /\ SubSeq(history', 1, historyIndexRef + 1) = SubSeq(history, 1, historyIndexRef + 1)
  /\ history'[Len(history')] = canvas'
  /\ historyIndexRef' = Len(history') - 1

\* C1: one paint gesture (mouse-down, moves, mouse-up) begun with a snapshot
\* recorded, then Undo, leaves on the canvas the bitmap, pixels and
\* dimensions, that was there just before the gesture.
C1_UndoRestoresPreGesture == trail = "undone" => canvas = mark

\* C2: Undo with the cursor above 0 lowers the cursor by one and makes the
\* canvas the snapshot at the new cursor; with the cursor at 0 or no snapshot
\* it changes neither cursor, canvas nor history; it never alters the history.
C2_UndoStep ==
  [][last'.op = "undo" =>
       /\ history' = history
       /\ IF historyIndexRef > 0
          THEN /\ historyIndexRef' = historyIndexRef - 1
               /\ canvas' = history[historyIndexRef' + 1]
          ELSE UNCHANGED <<historyIndexRef, canvas>>]_vars

\* C3: the cursor is -1 exactly when the history is empty, and otherwise
\* 0 <= cursor < length(history).
C3_CursorValid ==
  /\ historyIndexRef = -1 <=> history = <<>>
  /\ history # <<>> => 0 <= historyIndexRef /\ historyIndexRef < Len(history)

\* an Undo has left the cursor below the last of several snapshots
C3_CursorBelowLast ==
  last.op = "undo" /\ Len(history) >= 2 /\ historyIndexRef = 0 /\ last.idx = 1

\* C4: a push at cursor c of a history of length n keeps the first c+1
\* snapshots, discards those at c+1..n-1, appends the new one and leaves the
\* cursor on it, the last index; this holds for every push.
C4_PushTruncates ==
  [][(PushedByHandler \/ (history' # history /\ history' # <<>>)) => PushedOne]_vars

\* a push made after an Undo, with snapshots beyond the cursor to discard
C4_PushedAfterUndo ==
  /\ last.op \in {"removeSelectedColor", "updatePaletteColor", "mouseUp"}
  /\ last.idx >= 0
  /\ last.idx < last.len - 1
  /\ Len(history) = last.idx + 2
  /\ historyIndexRef = last.idx + 1

\* C5: mouse-down and the mouse-moves of a drag leave the history and the
\* cursor alone; the mouse-up that ends the drag pushes exactly one snapshot,
\* the canvas; a mouse-up with no drag in progress pushes none.
C5_OneSnapshotPerDrag ==
  [][/\ last'.op \in {"mouseDown", "mouseMove"} => UNCHANGED <<history, historyIndexRef>>
     /\ last'.op = "mouseUp" /\ isDrawing => PushedOne /\ canvas' = canvas
     /\ last'.op = "mouseUp" /\ ~isDrawing => UNCHANGED <<history, historyIndexRef>>]_vars

\* a drag that painted has ended and its one snapshot is the last
C5_DragCommitted ==
  /\ trail = "gestured"
  /\ canvas # mark
  /\ Len(history) = last.idx + 2
  /\ history[Len(history)] = canvas

\* C6: a paint at x < 0, x >= width, y < 0 or y >= height changes no pixel
\* of the canvas and raises no error, in the drag painter (advanced) and in
\* the click painters (simple, sock).
C6_OutOfBoundsPaintIgnored ==
  [][(last'.op \in {"canvasClick", "mouseDown", "mouseMove"} /\ last'.arg = "out")
       => canvas' = canvas /\ crashed' = crashed]_vars

C8_ColorRemoved ==
  [][last'.op = "removeSelectedColor" =>
       /\ canvas'.w = canvas.w /\ canvas'.h = canvas.h
       /\ \A n \in DOMAIN canvas.px :
            /\ SameRGB(canvas'.px[n], canvas.px[n])
            /\ canvas'.px[n].a = IF SameRGB(canvas.px[n], hexToColor(selectedColor))
                                 THEN 0 ELSE canvas.px[n].a
       /\ PushedOne]_vars

\* a colour has been removed from a bitmap that held other colours too
C8_SomeRemovedSomeKept ==
  /\ last.op = "removeSelectedColor"
  /\ \E n \in DOMAIN canvas.px :
       canvas.px[n].a = 0 /\ SameRGB(canvas.px[n], hexToColor(selectedColor))
       /\ canvas.px[n].r + canvas.px[n].g + canvas.px[n].b > 0
  /\ \E n \in DOMAIN canvas.px : canvas.px[n].a = 255
  /\ history[Len(history)] = canvas

\* ------------------------------------------------------------------------
\* removeBackground on 3x3 bitmaps: a simple or sock session holding a
\* bitmap whose corners, centre and edges are drawn from white, two colours
\* at distance 49 and 50 of white, and black
\* ------------------------------------------------------------------------
NearWhite == Px(206, 255, 255, 255)
AtThreshold == Px(205, 255, 255, 255)
BackgroundPixels == {White, NearWhite, AtThreshold, Black}

BackgroundBitmaps ==
  { [w |-> 3, h |-> 3, px |-> <<tl, e, tr, e, c, e, bl, e, br>>] :
      tl \in BackgroundPixels, tr \in BackgroundPixels, bl \in BackgroundPixels,
      br \in BackgroundPixels, c \in BackgroundPixels, e \in {White, Black} }

InitBackground ==
  /\ variant \in {"simple", "sock"}
  /\ canvas \in BackgroundBitmaps
  /\ pixelatedImage = canvas
  /\ image = canvas
  /\ resolution = defaultResolution
  /\ maxColors = defaultMaxColors
  /\ useDithering = TRUE
  /\ enhanceEdges = TRUE
  /\ colors = <<>>
  /\ selectedColor = BlackHex
  /\ isDrawing = FALSE
  /\ history = <<>>
  /\ historyIndexRef = -1
  /\ shouldRecalculateColors = FALSE
  /\ currentColors = <<>>
  /\ pending = <<>>
  /\ crashed = FALSE
  /\ events = 0
  /\ last = NoOp
  /\ trail = "none"
  /\ mark = NullBitmap
  /\ processed = <<>>

NextBackground == RemoveBackground

SpecBackground == InitBackground /\ [][NextBackground]_vars

\* squared Euclidean distance of two pixels in device RGB
RgbDistanceSquared(p, q) ==
  (p.r - q.r) * (p.r - q.r) + (p.g - q.g) * (p.g - q.g) + (p.b - q.b) * (p.b - q.b)

CornerIndices(bm) == {1, bm.w, (bm.h - 1) * bm.w + 1, bm.h * bm.w}
CentreIndex(bm) == ((bm.h - 1) \div 2) * bm.w + ((bm.w - 1) \div 2) + 1

\* C9: removeBackground makes transparent exactly the pixels within RGB
\* distance < 50 of the top-left, top-right or bottom-left pixel as they were
\* before the pass, and leaves every other alpha and every RGB unchanged; with
\* all four corners of one colour and the centre at distance >= 50 of it, the
\* corners end transparent and the centre keeps its alpha.
C9_BackgroundRemoved ==
  [][last'.op = "removeBackground" =>
       LET sampled == {canvas.px[1], canvas.px[canvas.w],
                       canvas.px[(canvas.h - 1) * canvas.w + 1]}
           near(p) == \E q \in sampled : RgbDistanceSquared(p, q) < 50 * 50
       IN /\ canvas'.w = canvas.w /\ canvas'.h = canvas.h
          /\ \A n \in DOMAIN canvas.px :
               /\ SameRGB(canvas'.px[n], canvas.px[n])
               /\ canvas'.px[n].a = IF near(canvas.px[n]) THEN 0 ELSE canvas.px[n].a
          /\ ( /\ \A n \in CornerIndices(canvas) : SameRGB(canvas.px[n], canvas.px[1])
               /\ RgbDistanceSquared(canvas.px[CentreIndex(canvas)], canvas.px[1]) >= 50 * 50 )
             => /\ \A n \in CornerIndices(canvas) : canvas'.px[n].a = 0
                /\ canvas'.px[CentreIndex(canvas)].a = canvas.px[CentreIndex(canvas)].a]_vars

\* white corners around a black centre: the corners are gone, the centre stays
C9_CornersGoneCentreKept ==
  /\ last.op = "removeBackground"
  /\ canvas.w = 3 /\ canvas.h = 3
  /\ \A n \in CornerIndices(canvas) : canvas.px[n].a = 0 /\ SameRGB(canvas.px[n], White)
  /\ canvas.px[CentreIndex(canvas)] = Black

C11_DecodeFailureKeepsState ==
  [][/\ \A i \in DOMAIN Images :
          RequestLoad(i) =>
            UNCHANGED <<image, pixelatedImage, canvas, colors, history, historyIndexRef>>
     /\ \A n \in DOMAIN pending :
          DecodeFail(n) =>
            /\ UNCHANGED <<image, pixelatedImage, canvas, colors, history, historyIndexRef>>
            /\ IF pending[n].path \in 1..3
               THEN /\ Len(pending') = Len(pending)
                    /\ pending'[n] = [pending[n] EXCEPT !.path = @ + 1]
               ELSE Len(pending') = Len(pending) - 1]_vars

\* the default-image loader has failed on its last path and holds no image
C11_LoaderGaveUp ==
  /\ variant = "sock"
  /\ last.op = "decodeFailed" /\ last.arg = "gaveUp"
  /\ pending = <<>>
  /\ IsNull(image) /\ IsNull(canvas) /\ colors = <<>>

\* ------------------------------------------------------------------------
\* The stages of the pipeline on small bitmaps.  image is the bitmap a stage
\* is given, maxColors the k asked of the extractor, colors the palette it
\* returned, canvas the bitmap a stage returned, crashed whether it threw,
\* events the number of turns the ditherer's loop has taken.
\* ------------------------------------------------------------------------
\* pixels of the bitmaps: three opaque colours, a red at alpha 128 and a
\* red at alpha 0
HalfRed == Px(255, 0, 0, 128)
ClearRed == Px(255, 0, 0, 0)
StagePixels == {Red, Blue, White, HalfRed, ClearRed}

\* an opaque mid grey
Grey128 == Px(128, 128, 128, 255)

\* two opaque reds half a rounding step of the sock variant's seeding apart
Red248 == Px(248, 0, 0, 255)
Red252 == Px(252, 0, 0, 255)
NearReds == {Red248, Red252}

\* rows of one to three pixels, 2x2 grids, 3x3 grids of one pixel value
\* around a centre, and rows of near reds
StageBitmaps ==
  { [w |-> 1, h |-> 1, px |-> <<a>>] : a \in NearReds }
  \cup { [w |-> 2, h |-> 1, px |-> <<a, b>>] : a \in NearReds, b \in NearReds }
  \cup { [w |-> 3, h |-> 1, px |-> <<a, b, c>>] :
           a \in NearReds, b \in NearReds, c \in NearReds }
  \cup
  { [w |-> 1, h |-> 1, px |-> <<a>>] : a \in StagePixels }
  \cup { [w |-> 2, h |-> 1, px |-> <<a, b>>] : a \in StagePixels, b \in StagePixels }
  \cup { [w |-> 3, h |-> 1, px |-> <<a, b, c>>] :
           a \in StagePixels, b \in StagePixels, c \in StagePixels }
  \cup { [w |-> 2, h |-> 2, px |-> <<a, b, c, d>>] :
           a \in StagePixels, b \in StagePixels, c \in StagePixels, d \in StagePixels }
  \cup { [w |-> 3, h |-> 3, px |-> <<a, a, a, a, c, a, a, a, a>>] :
           a \in StagePixels, c \in StagePixels \cup {Grey128} }

\* the palette sizes asked for
StageSizes == 1..3

InitStages ==
  /\ variant \in Variants
  /\ image \in StageBitmaps
  /\ maxColors \in StageSizes
  /\ resolution = image.w
  /\ useDithering = TRUE
  /\ enhanceEdges = TRUE
  /\ pixelatedImage = NullBitmap
  /\ colors = <<>>
  /\ selectedColor = BlackHex
  /\ isDrawing = FALSE
  /\ history = <<>>
  /\ historyIndexRef = -1
  /\ shouldRecalculateColors = TRUE
  /\ currentColors = <<>>
  /\ canvas = NullBitmap
  /\ pending = <<>>
  /\ crashed = FALSE
  /\ events = 0
  /\ last = NoOp
  /\ trail = "none"
  /\ mark = NullBitmap
  /\ processed = <<>>

StageFrame ==
  UNCHANGED <<variant, image, maxColors, resolution, enhanceEdges, pixelatedImage,
              selectedColor, isDrawing, history, historyIndexRef,
              shouldRecalculateColors, currentColors, pending, trail, mark, processed>>

\* the three extractors with the sock variant seeded like the simple one
quantizeColorsAllSeeded(v, imageData, k, rnd) ==
  CASE v = "advanced" -> quantizeColorsAdvanced(imageData, k, rnd)
    [] v = "simple" -> quantizeColorsSimple(imageData, k, rnd)
    [] v = "sock" -> quantizeColorsSimple(imageData, k, rnd)

\* quantizeColors of variant v: the advanced and the simple one call
\* Math.random() for their seeds, the sock one calls it nowhere
quantizeColors(v, imageData, k, rnd) ==
  CASE v = "advanced" -> quantizeColorsAdvanced(imageData, k, rnd)
    [] v = "simple" -> quantizeColorsSimple(imageData, k, rnd)
    [] v = "sock" -> quantizeColorsSock(imageData, k)

\* quantizeColors of the variant on the bitmap, for one outcome of its draws
ExtractPalette ==
  /\ last.op = "none"
  /\ \E rnd \in RandomDraws(image, maxColors) :
       colors' = quantizeColors(variant, image, maxColors, rnd)
  /\ last' = Did("extract", "")
  /\ UNCHANGED <<canvas, crashed, events, useDithering>>
  /\ StageFrame

\* the non-dithered mapping of the variant with the palette extracted; its
\* loop reads palette[0] for a pixel of alpha > 128 only, and throws there
\* if the palette is empty
QuantizeDirect ==
  /\ last.op = "extract"
  /\ crashed' = (colors = <<>> /\ \E n \in DOMAIN image.px : image.px[n].a > 128)
  /\ canvas' = IF crashed' THEN image
               ELSE IF variant = "advanced" THEN directQuantize(image, paletteColors(colors))
               ELSE quantizeToHexPalette(image, colors)
  /\ useDithering' = FALSE
  /\ last' = Did("direct", "")
  /\ UNCHANGED <<colors, events>>
  /\ StageFrame

\* floydSteinbergDither is entered with the palette extracted
DitherBegin ==
  /\ last.op = "extract"
  /\ variant = "advanced"
  /\ canvas' = image
  /\ events' = 0
  /\ last' = Did("dithering", "")
  /\ UNCHANGED <<colors, crashed, useDithering>>
  /\ StageFrame

\* one turn of its loop, at pixel events + 1
DitherStep ==
  /\ last.op = "dithering"
  /\ ~crashed
  /\ events < canvas.w * canvas.h
  /\ LET turn == ditherStep(canvas.px, canvas.w, paletteColors(colors), events + 1)
     IN /\ canvas' = [canvas EXCEPT !.px = turn.px]
        /\ crashed' = turn.fault
  /\ events' = events + 1
  /\ UNCHANGED <<colors, useDithering, last>>
  /\ StageFrame

\* areaAverageDownsample to the bitmap's own size
DownsampleSameSize ==
  /\ last.op = "none"
  /\ variant = "advanced"
  /\ canvas' = areaAverageDownsample(image, image.w, image.h)
  /\ last' = Did("downsample", "")
  /\ UNCHANGED <<colors, crashed, events, useDithering>>
  /\ StageFrame

\* enhanceEdgesFilter
Sharpen ==
  /\ last.op = "none"
  /\ variant = "advanced"
  /\ canvas' = enhanceEdgesFilter(image)
  /\ last' = Did("sharpen", "")
  /\ UNCHANGED <<colors, crashed, events, useDithering>>
  /\ StageFrame

NextStages ==
  \/ ExtractPalette
  \/ QuantizeDirect
  \/ DitherBegin
  \/ DitherStep
  \/ DownsampleSameSize
  \/ Sharpen

SpecStages == InitStages /\ [][NextStages]_vars

\* ------------------------------------------------------------------------
\* Properties of the stages
\* ------------------------------------------------------------------------
\* the positions of the pixels that pass the extractor's test
VisiblePixels(bitmap) == { n \in DOMAIN bitmap.px : isVisible(bitmap.px[n]) }

\* C12: for a bitmap without a visible pixel the extractor returns the empty
\* palette, and the direct and the dithered mapping end without a fault and
\* with every pixel as it was.
C12_EmptyInputIsNoOp ==
  VisiblePixels(image) = {} =>
    /\ last.op # "none" => colors = <<>>
    /\ ~crashed
    /\ last.op \in {"direct", "dithering"} => canvas = image

\* the distinct RGB values among the visible pixels of a bitmap
DistinctVisible(bitmap) ==
  { <<bitmap.px[n].r, bitmap.px[n].g, bitmap.px[n].b>> : n \in VisiblePixels(bitmap) }

Extracted == last.op \in {"extract", "direct", "dithering"}

\* C13: asked for k colours of a bitmap with at least k distinct visible
\* colours, the extractor returns exactly k colours, whatever its draws.
C13_ExactlyK ==
  (Extracted /\ maxColors <= Cardinality(DistinctVisible(image)))
    => Len(colors) = maxColors

\* C14: asked for more colours than the d >= 1 distinct visible colours of
\* the bitmap, the extractor of every variant returns exactly d colours, no
\* two of them equal.
C14_NoPadding ==
  (/\ Extracted
   /\ Cardinality(DistinctVisible(image)) >= 1
   /\ maxColors > Cardinality(DistinctVisible(image)))
    => /\ Len(colors) = Cardinality(DistinctVisible(image))
       /\ \A i \in DOMAIN colors : \A j \in DOMAIN colors : colors[i] = colors[j] => i = j

\* the values of one channel over the visible pixels of a bitmap
ChannelValues(bitmap, ch) == { bitmap.px[n][ch] : n \in VisiblePixels(bitmap) }

\* C15: every colour the extractor returns lies, on each of R, G and B,
\* between the least and the greatest value of that channel over the
\* visible pixels.
C15_WithinColorVolume ==
  Extracted =>
    \A i \in DOMAIN colors : \A ch \in {"r", "g", "b"} :
      /\ \E v \in ChannelValues(image, ch) : v <= hexToColor(colors[i])[ch]
      /\ \E v \in ChannelValues(image, ch) : hexToColor(colors[i])[ch] <= v

\* C16: every palette entry is '#' and six hexadecimal digits, and encodes
\* channels in 0..255 that parsing its three digit pairs gives back.
C16_SixDigitHex ==
  Extracted =>
    \A i \in DOMAIN colors :
      /\ Len(colors[i]) = 7
      /\ colors[i][1] = "#"
      /\ \A n \in 2..Len(colors[i]) : HexValue(colors[i][n]) >= 0
      /\ LET c == hexToColor(colors[i])
         IN /\ c.r \in 0..255 /\ c.g \in 0..255 /\ c.b \in 0..255
            /\ toHex(c.r, c.g, c.b) = colors[i]

\* C17: downsampling a bitmap to its own width and height returns the
\* bitmap, equal on every pixel and every channel.
C17_SameSizeDownsampleIsIdentity ==
  last.op = "downsample" => canvas = image

\* the distance the direct mapping of the variant measures between a pixel
\* and the j-th palette entry
DirectDistance(pixel, j) ==
  IF variant = "advanced" THEN paletteDistance(pixel, paletteColors(colors)[j])
  ELSE hexDistance(pixel, colors[j])

\* the first palette entry at least distance from the pixel
NearestEntry(pixel) ==
  CHOOSE j \in DOMAIN colors :
    /\ \A m \in DOMAIN colors : DirectDistance(pixel, j) <= DirectDistance(pixel, m)
    /\ \A m \in 1..(j - 1) : DirectDistance(pixel, m) > DirectDistance(pixel, j)

\* C18 as stated: the direct mapping with a non-empty palette gives every
\* pixel the RGB of the first palette entry at least distance from its input
\* RGB, and leaves every alpha as it was.
C18_DirectMapsEveryPixel ==
  (last.op = "direct" /\ colors # <<>>) =>
    /\ canvas.w = image.w /\ canvas.h = image.h
    /\ \A n \in DOMAIN image.px :
         /\ canvas.px[n].a = image.px[n].a
         /\ SameRGB(canvas.px[n], hexToColor(colors[NearestEntry(image.px[n])]))

\* C18: the direct mapping with a non-empty palette gives every visible
\* pixel (alpha > 128) the RGB of the first palette entry at least distance
\* from its input RGB, leaves every other pixel's RGB as it was, and leaves
\* every alpha as it was.
C18_DirectMapsVisiblePixels ==
  (last.op = "direct" /\ colors # <<>>) =>
    /\ canvas.w = image.w /\ canvas.h = image.h
    /\ \A n \in DOMAIN image.px :
         /\ canvas.px[n].a = image.px[n].a
         /\ IF isVisible(image.px[n])
            THEN SameRGB(canvas.px[n], hexToColor(colors[NearestEntry(image.px[n])]))
            ELSE SameRGB(canvas.px[n], image.px[n])

\* the direct mapping has recoloured a visible pixel and has left an
\* invisible pixel with an RGB that no palette entry has
C18_VisibleMappedInvisibleKept ==
  /\ last.op = "direct" /\ colors # <<>>
  /\ \E n \in DOMAIN image.px :
       isVisible(image.px[n]) /\ ~SameRGB(canvas.px[n], image.px[n])
  /\ \E n \in DOMAIN image.px :
       /\ ~isVisible(image.px[n])
       /\ \A j \in DOMAIN colors : ~SameRGB(canvas.px[n], hexToColor(colors[j]))

\* the four neighbours of pixel i (1-based) that the error goes to: right,
\* below-left, below, below-right, inside a bitmap of width w
ErrorNeighbours(bitmap, i) ==
  LET x == (i - 1) % bitmap.w
      y == (i - 1) \div bitmap.w
  IN { PxIndex(bitmap, x + d[1], y + d[2]) :
         d \in { e \in {<<1, 0>>, <<-1, 1>>, <<0, 1>>, <<1, 1>>} :
                   InBounds(bitmap, x + e[1], y + e[2]) } }

HasPaletteColor(pixel) ==
  \E j \in DOMAIN colors : SameRGB(pixel, hexToColor(colors[j]))

\* C19: a turn of the ditherer's loop visits the next pixel in row-major
\* order; besides that pixel it changes only pixels among its right,
\* below-left, below and below-right neighbours that are visible, none of
\* them visited before; it changes no alpha; a visited pixel is never
\* changed again; and when the loop has ended every visible pixel has the
\* RGB of a palette entry.
C19_DitherOrder ==
  /\ [][DitherStep =>
          /\ events' = events + 1
          /\ \A n \in DOMAIN canvas.px :
               /\ canvas'.px[n].a = canvas.px[n].a
               /\ n <= events => canvas'.px[n] = canvas.px[n]
               /\ (n > events' /\ canvas'.px[n] # canvas.px[n]) =>
                    /\ n \in ErrorNeighbours(canvas, events')
                    /\ canvas.px[n].a > 128
          /\ (isVisible(canvas.px[events']) /\ ~crashed') =>
               HasPaletteColor(canvas'.px[events'])]_vars
  /\ []((last.op = "dithering" /\ ~crashed) =>
          /\ \A n \in 1..events : isVisible(canvas.px[n]) => HasPaletteColor(canvas.px[n])
          /\ \A n \in DOMAIN canvas.px : canvas.px[n].a = image.px[n].a)

\* the first turn has written its pixel and has handed error to a later
\* pixel
C19_ErrorHandedOn ==
  /\ last.op = "dithering" /\ ~crashed
  /\ events = 1
  /\ HasPaletteColor(canvas.px[1])
  /\ \E n \in 2..Len(canvas.px) : canvas.px[n] # image.px[n]

\* C20: the sharpened bitmap has the width, the height and every pixel's
\* alpha of the input.
C20_SharpenKeepsAlpha ==
  last.op = "sharpen" =>
    /\ canvas.w = image.w /\ canvas.h = image.h
    /\ \A n \in DOMAIN image.px : canvas.px[n].a = image.px[n].a

\* ------------------------------------------------------------------------
\* Properties of the session: palette, history, loads
\* ------------------------------------------------------------------------
\* the palettes the extractor of the variant can return for the image, the
\* resolution and the maxColors (and, in the advanced variant, the edge
\* enhancement that precedes the downsampling)
ExtractorPalettes(img, res, k, dith, enh) ==
  CASE variant = "advanced" ->
         { p.palette : p \in processed[imageNo(img)][res][k][boxNo(dith)][boxNo(enh)] }
    [] variant = "simple" -> { p.palette : p \in processed[imageNo(img)][res][k] }
    [] variant = "sock" -> { processed[imageNo(img)][res][k].palette }

\* C21: after a change of resolution or maxColors, or a new image, the
\* palette is the extractor's output for the image, the resolution and the
\* maxColors now held, whatever palette was held before.
C21_PaletteRegenerated ==
  [][(/\ last'.op \in {"setResolution", "setMaxColors", "decoded"}
      /\ last' # last
      /\ ~IsNull(image'))
       => colors' \in ExtractorPalettes(image', resolution', maxColors',
                                        useDithering', enhanceEdges')]_vars

\* C22: painting, removing a colour, removing the background and undoing
\* leave the palette as it was.
C22_PaletteKept ==
  [][(/\ last'.op \in {"mouseDown", "mouseMove", "mouseUp", "mouseLeave", "canvasClick",
                       "removeSelectedColor", "removeBackground", "undo"}
      /\ last' # last)
       => colors' = colors]_vars

\* an undo after a palette colour was edited has put a snapshot back and
\* has left the edited colour in the palette
C22_UndoKeptEditedColor ==
  /\ last.op = "undo"
  /\ last.idx > historyIndexRef
  /\ \E i \in DOMAIN colors : colors[i] = toHex(0, 255, 0)

\* ------------------------------------------------------------------------
\* The ditherer on uniform opaque bitmaps with palettes given to it
\* ------------------------------------------------------------------------
\* a lighter grey for the uniform bitmaps and the palettes
Grey200 == Px(200, 200, 200, 255)
UniformColors == {Black, White, Grey128, Grey200, Red}

\* the sides of the uniform bitmaps
UniformSides == 1..3

UniformBitmaps ==
  { [w |-> w, h |-> h, px |-> Arr([n \in 1..(w * h) |-> c])] :
      w \in UniformSides, h \in UniformSides, c \in UniformColors }

\* palettes of one and of two colours
GivenPalettes ==
  { <<toHex(a.r, a.g, a.b)>> : a \in UniformColors }
  \cup { <<toHex(p[1].r, p[1].g, p[1].b), toHex(p[2].r, p[2].g, p[2].b)>> :
           p \in { q \in UniformColors \X UniformColors : q[1] # q[2] } }

InitDither ==
  /\ variant = "advanced"
  /\ image \in UniformBitmaps
  /\ colors \in GivenPalettes
  /\ maxColors = Len(colors)
  /\ resolution = image.w
  /\ useDithering = TRUE
  /\ enhanceEdges = TRUE
  /\ pixelatedImage = NullBitmap
  /\ selectedColor = BlackHex
  /\ isDrawing = FALSE
  /\ history = <<>>
  /\ historyIndexRef = -1
  /\ shouldRecalculateColors = TRUE
  /\ currentColors = <<>>
  /\ canvas = NullBitmap
  /\ pending = <<>>
  /\ crashed = FALSE
  /\ events = 0
  /\ last = [NoOp EXCEPT !.op = "extract"]
  /\ trail = "none"
  /\ mark = NullBitmap
  /\ processed = <<>>

NextDither ==
  \/ DitherBegin
  \/ DitherStep

SpecDither == InitDither /\ [][NextDither]_vars

\* the sum of a channel over the pixels of a bitmap
RECURSIVE ChannelTotalFrom(_, _, _)
ChannelTotalFrom(px, ch, n) ==
  IF n > Len(px) THEN 0 ELSE px[n][ch] + ChannelTotalFrom(px, ch, n + 1)

ChannelTotal(bitmap, ch) == ChannelTotalFrom(bitmap.px, ch, 1)

\* the values of a channel over the palette, and the largest gap between
\* two of them that are adjacent (0 for a single value)
PaletteValues(ch) == { hexToColor(colors[j])[ch] : j \in DOMAIN colors }

PaletteStep(ch) ==
  LET gaps == { b - a : <<a, b>> \in
                  { p \in PaletteValues(ch) \X PaletteValues(ch) :
                      /\ p[1] < p[2]
                      /\ ~\E v \in PaletteValues(ch) : p[1] < v /\ v < p[2] } }
  IN IF gaps = {} THEN 0 ELSE CHOOSE g \in gaps : \A q \in gaps : q <= g

DitherEnded == last.op = "dithering" /\ ~crashed /\ events = Len(canvas.px)

\* C23: after the ditherer has run on an opaque bitmap of one colour, the
\* total of each channel over the bitmap differs from the total before by
\* at most the palette step of that channel.
C23_DitherConservesTotal ==
  DitherEnded =>
    \A ch \in {"r", "g", "b"} :
      Abs(ChannelTotal(image, ch) - ChannelTotal(canvas, ch)) <= PaletteStep(ch)

\* ------------------------------------------------------------------------
\* The k-means loop of the advanced extractor, one iteration a step.
\* image is the bitmap, maxColors the k, currentColors the centroids the
\* loop holds (channels in thousandths), events the iterations done.
\* ------------------------------------------------------------------------
KmeansPixels == {Red, Blue, White, ClearRed}

KmeansBitmaps ==
  { [w |-> 1, h |-> 1, px |-> <<a>>] : a \in KmeansPixels }
  \cup { [w |-> 2, h |-> 1, px |-> <<a, b>>] : a \in KmeansPixels, b \in KmeansPixels }
  \cup { [w |-> 3, h |-> 1, px |-> <<a, b, c>>] :
           a \in KmeansPixels, b \in KmeansPixels, c \in KmeansPixels }
  \cup { [w |-> 2, h |-> 2, px |-> <<a, b, c, d>>] :
           a \in KmeansPixels, b \in KmeansPixels, c \in KmeansPixels, d \in KmeansPixels }

InitKmeans ==
  /\ variant = "advanced"
  /\ image \in KmeansBitmaps
  /\ visiblePixels(image) # <<>>
  /\ maxColors \in StageSizes
  /\ resolution = image.w
  /\ useDithering = TRUE
  /\ enhanceEdges = TRUE
  /\ pixelatedImage = NullBitmap
  /\ colors = <<>>
  /\ selectedColor = BlackHex
  /\ isDrawing = FALSE
  /\ history = <<>>
  /\ historyIndexRef = -1
  /\ shouldRecalculateColors = TRUE
  /\ currentColors = <<>>
  /\ canvas = NullBitmap
  /\ pending = <<>>
  /\ crashed = FALSE
  /\ events = 0
  /\ last = NoOp
  /\ trail = "none"
  /\ mark = NullBitmap
  /\ processed = <<>>

KmeansFrame ==
  UNCHANGED <<variant, image, maxColors, resolution, useDithering, enhanceEdges,
              pixelatedImage, colors, selectedColor, isDrawing, history, historyIndexRef,
              shouldRecalculateColors, canvas, pending, crashed, trail, mark, processed>>

\* the k-means++ seeding, for one outcome of its draws
SeedCentroids ==
  /\ last.op = "none"
  /\ \E rnd \in RandomDraws(image, maxColors) :
       currentColors' = seedCentroids(visiblePixels(image), maxColors, rnd, <<>>)
  /\ events' = 0
  /\ last' = Did("seeded", "changed")
  /\ KmeansFrame

\* one iteration of the loop: assignment, weighted update, 'changed'
KmeansIterate ==
  /\ last.op \in {"seeded", "iterated"}
  /\ last.arg = "changed"
  /\ events < 30
  /\ LET pixels == visiblePixels(image)
         assign == assignPerceptual(pixels, currentColors)
         upd == Arr([i \in DOMAIN currentColors |->
                       updateWeighted(pixels, assign, currentColors, i)])
     IN /\ currentColors' = updatedCentroids(upd)
        /\ last' = Did("iterated", IF \E i \in DOMAIN upd : upd[i].changed
                                   THEN "changed" ELSE "settled")
  /\ events' = events + 1
  /\ KmeansFrame

NextKmeans ==
  \/ SeedCentroids
  \/ KmeansIterate

SpecKmeans == InitKmeans /\ [][NextKmeans]_vars

\* the visible pixels (by position in the collected sequence) assigned to
\* centroid i
Cluster(i) ==
  LET pixels == visiblePixels(image)
      assign == assignPerceptual(pixels, currentColors)
  IN { p \in DOMAIN pixels : assign[p] = i }

\* the sum over the distinct colours c of a cluster of count(c) * c[ch], and
\* (for ch = "w") of count(c): one pixel stands for each distinct colour
RECURSIVE FrequencySum(_, _, _, _)
FrequencySum(pixels, members, ch, n) ==
  IF n > Len(pixels) THEN 0
  ELSE (IF n \in members /\ \A m \in 1..(n - 1) : ~SameRGB(pixels[m], pixels[n])
        THEN pixelCount(pixels, pixels[n]) * (IF ch = "w" THEN 1 ELSE pixels[n][ch])
        ELSE 0)
       + FrequencySum(pixels, members, ch, n + 1)

\* C24: an iteration sets a centroid with a non-empty cluster, on each
\* channel, to the sum over the distinct colours c assigned to it of
\* count(c) * c divided by the sum of count(c), and leaves a centroid with an
\* empty cluster as it was.
C24_FrequencyWeightedMean ==
  [][KmeansIterate =>
       \A i \in DOMAIN currentColors :
         IF Cluster(i) = {} THEN currentColors'[i] = currentColors[i]
         ELSE \A ch \in {"r", "g", "b"} :
                currentColors'[i][ch] =
                  (FrequencySum(visiblePixels(image), Cluster(i), ch, 1) * Milli)
                    \div FrequencySum(visiblePixels(image), Cluster(i), "w", 1)]_vars

\* ------------------------------------------------------------------------
\* The downsampler on sources and targets of several sizes.  image is the
\* source, pixelatedImage the target as constructed (new ImageData(
\* targetWidth, targetHeight)), canvas the target returned.
\* ------------------------------------------------------------------------
SourcePixels == {Red, Blue, HalfRed, ClearRed}

\* sources of one or two columns and rows, rows of three, and rows of seven
\* pixels that end on a pixel of their own
SourceBitmaps ==
  { [w |-> 1, h |-> 1, px |-> <<a>>] : a \in SourcePixels }
  \cup { [w |-> d[1], h |-> d[2], px |-> <<a, b>>] :
           d \in {<<2, 1>>, <<1, 2>>}, a \in SourcePixels, b \in SourcePixels }
  \cup { [w |-> 3, h |-> 1, px |-> <<a, b, c>>] :
           a \in SourcePixels, b \in SourcePixels, c \in SourcePixels }
  \cup { [w |-> 2, h |-> 2, px |-> <<a, b, c, d>>] :
           a \in SourcePixels, b \in SourcePixels, c \in SourcePixels, d \in SourcePixels }
  \cup { [w |-> 7, h |-> 1, px |-> <<a, a, a, a, a, a, b>>] :
           a \in SourcePixels, b \in SourcePixels }

\* the target sizes tried on a source: up to three columns and rows, and
\* for the rows of seven the widths 3, 7 and 25
TargetSizes(source) ==
  IF source.w = 7 THEN {<<3, 1>>, <<7, 1>>, <<25, 1>>} ELSE (1..3) \X (1..3)

InitDownsample ==
  /\ variant = "advanced"
  /\ image \in SourceBitmaps
  /\ \E t \in (1..25) \X (1..3) :
       /\ t \in TargetSizes(image)
       /\ pixelatedImage = blankCanvas(t[1], t[2])
  /\ resolution = pixelatedImage.w
  /\ maxColors = defaultMaxColors
  /\ useDithering = TRUE
  /\ enhanceEdges = TRUE
  /\ colors = <<>>
  /\ selectedColor = BlackHex
  /\ isDrawing = FALSE
  /\ history = <<>>
  /\ historyIndexRef = -1
  /\ shouldRecalculateColors = TRUE
  /\ currentColors = <<>>
  /\ canvas = NullBitmap
  /\ pending = <<>>
  /\ crashed = FALSE
  /\ events = 0
  /\ last = NoOp
  /\ trail = "none"
  /\ mark = NullBitmap
  /\ processed = <<>>

\* areaAverageDownsample(sourceData, targetWidth, targetHeight)
Downsample ==
  /\ last.op = "none"
  /\ canvas' = areaAverageDownsample(image, pixelatedImage.w, pixelatedImage.h)
  /\ last' = Did("downsample", "")
  /\ UNCHANGED <<variant, image, resolution, maxColors, useDithering, enhanceEdges,
                 pixelatedImage, colors, selectedColor, isDrawing, history,
                 historyIndexRef, shouldRecalculateColors, currentColors, pending,
                 crashed, events, trail, mark, processed>>

NextDownsample == Downsample

SpecDownsample == InitDownsample /\ [][NextDownsample]_vars

\* the source pixels (by index) of the rectangle of target cell (x, y) that
\* lie in the source
RectanglePixels(source, target, x, y) ==
  LET xRatio == DoubleQuotient(source.w, target.w)
      yRatio == DoubleQuotient(source.h, target.h)
  IN { PxIndex(source, c[1], c[2]) :
         c \in { e \in (FloorTimes(x, xRatio)..(CeilTimes(x + 1, xRatio) - 1))
                        \X (FloorTimes(y, yRatio)..(CeilTimes(y + 1, yRatio) - 1)) :
                   InBounds(source, e[1], e[2]) } }

\* the sum over the pixels S of a bitmap of alpha (ch = "a") or of
\* channel * alpha
RECURSIVE AlphaWeightedSum(_, _, _)
AlphaWeightedSum(source, S, ch) ==
  IF S = {} THEN 0
  ELSE LET n == CHOOSE e \in S : TRUE
       IN (IF ch = "a" THEN source.px[n].a ELSE source.px[n][ch] * source.px[n].a)
          + AlphaWeightedSum(source, S \ {n}, ch)

\* C25: every target cell has the alpha round(sum of the alphas of its
\* rectangle / number of source pixels in the rectangle) and the RGB of the
\* alpha-weighted mean of the rectangle; a rectangle of total alpha 0 gives
\* (0,0,0,0); every rectangle holds a source pixel.
C25_CellIsRectangleAverage ==
  last.op = "downsample" =>
    /\ canvas.w = pixelatedImage.w /\ canvas.h = pixelatedImage.h
    /\ \A x \in 0..(canvas.w - 1) : \A y \in 0..(canvas.h - 1) :
         LET S == RectanglePixels(image, canvas, x, y)
             total == AlphaWeightedSum(image, S, "a")
             cell == canvas.px[PxIndex(canvas, x, y)]
         IN /\ S # {}
            /\ cell.a = MathRound(total, Cardinality(S))
            /\ IF total = 0 THEN cell = ZeroPx
               ELSE /\ cell.r = MathRound(AlphaWeightedSum(image, S, "r"), total)
                    /\ cell.g = MathRound(AlphaWeightedSum(image, S, "g"), total)
                    /\ cell.b = MathRound(AlphaWeightedSum(image, S, "b"), total)

\* C26: every interior pixel of the sharpened bitmap has, on each of R, G
\* and B, the value 5 * centre - up - down - left - right of the input,
\* clamped to 0..255, also when that value is 0.
C26_InteriorIsKernel ==
  last.op = "sharpen" =>
    \A x \in 1..(image.w - 2) : \A y \in 1..(image.h - 2) :
      \A ch \in {"r", "g", "b"} :
        canvas.px[PxIndex(image, x, y)][ch] =
          Max(0, Min(255, 5 * image.px[PxIndex(image, x, y)][ch]
                          - image.px[PxIndex(image, x, y - 1)][ch]
                          - image.px[PxIndex(image, x, y + 1)][ch]
                          - image.px[PxIndex(image, x - 1, y)][ch]
                          - image.px[PxIndex(image, x + 1, y)][ch]))

\* ------------------------------------------------------------------------
\* Two runs of an extractor on one bitmap with one k: colors is the palette
\* of the first run, currentColors the palette of the second.
\* ------------------------------------------------------------------------
\* the bitmaps of the two runs: rows of one to three pixels
TwoRunBitmaps == { bitmap \in KmeansBitmaps : bitmap.h = 1 }

InitTwoRuns ==
  /\ variant \in Variants
  /\ image \in TwoRunBitmaps
  /\ maxColors \in StageSizes
  /\ resolution = image.w
  /\ useDithering = TRUE
  /\ enhanceEdges = TRUE
  /\ pixelatedImage = NullBitmap
  /\ colors = <<>>
  /\ selectedColor = BlackHex
  /\ isDrawing = FALSE
  /\ history = <<>>
  /\ historyIndexRef = -1
  /\ shouldRecalculateColors = TRUE
  /\ currentColors = <<>>
  /\ canvas = NullBitmap
  /\ pending = <<>>
  /\ crashed = FALSE
  /\ events = 0
  /\ last = NoOp
  /\ trail = "none"
  /\ mark = NullBitmap
  /\ processed = <<>>

\* quantizeColors of the variant once more, for one outcome of its draws
ExtractAgain ==
  /\ last.op = "extract"
  /\ \E rnd \in RandomDraws(image, maxColors) :
       currentColors' = quantizeColors(variant, image, maxColors, rnd)
  /\ last' = Did("extractedAgain", "")
  /\ UNCHANGED <<variant, image, maxColors, resolution, useDithering, enhanceEdges,
                 pixelatedImage, colors, selectedColor, isDrawing, history, historyIndexRef,
                 shouldRecalculateColors, canvas, pending, crashed, events, trail, mark,
                 processed>>

NextTwoRuns ==
  \/ ExtractPalette
  \/ ExtractAgain

SpecTwoRuns == InitTwoRuns /\ [][NextTwoRuns]_vars

C28_BitmapIsCursorSnapshot ==
  (~isDrawing /\ history # <<>> /\ ~crashed) =>
    /\ historyIndexRef + 1 \in DOMAIN history
    /\ canvas = history[historyIndexRef + 1]

\* C29: when the last in-flight decode callback completes, the source image
\* is that of the most recent request (none after a later reset, the default
\* image in the sock variant), whatever the order of completion.
C29_LatestRequestWins ==
  [][(last'.op = "decoded" /\ pending # <<>> /\ pending' = <<>>) =>
       image' = pending[1].wanted]_vars

\* C30: every stage treats the same pixels as visible: a pixel is counted
\* by the extractor exactly if the direct mapper recolours it, exactly if
\* the ditherer quantizes it (reads the palette for it and writes a palette
\* colour), and only such a pixel receives diffused error.
C30_SameVisibility ==
  [][/\ (QuantizeDirect /\ ~crashed') =>
          \A n \in DOMAIN image.px :
            IF isVisible(image.px[n])
            THEN \E j \in DOMAIN colors : SameRGB(canvas'.px[n], hexToColor(colors[j]))
            ELSE canvas'.px[n] = image.px[n]
     /\ DitherStep =>
          /\ IF isVisible(canvas.px[events'])
             THEN crashed' \/ HasPaletteColor(canvas'.px[events'])
             ELSE ~crashed' /\ canvas'.px[events'] = canvas.px[events']
          /\ \A n \in DOMAIN canvas.px :
               (n > events' /\ canvas'.px[n] # canvas.px[n]) => isVisible(canvas.px[n])]_vars

====
